---- MODULE Spec2Model ----
(***************************************************************************)
(* Model of yakit_takip.py (class YakitTakipUygulamasi): the SQLite tables *)
(* as the shared connection sees them, the committed copy on disk, the     *)
(* Tk widgets the handlers read back (combo-boxes, trees, labels) and one  *)
(* action per button handler.                                              *)
(*                                                                         *)
(* Text is a sequence of one-character strings, so that strip(), upper(),  *)
(* split("ID:"), int() and the value conversion of ttk.Treeview.item() are *)
(* computed and not assumed.  REAL columns hold whole litres, whose        *)
(* arithmetic is exact, and the values float() also yields from a form:    *)
(* infinity and NaN (which SQLite stores as NULL).  A rate is a fraction   *)
(* <<num, den>>.  The free-text note columns, the time of day of a         *)
(* timestamp and the vehicle-detail panel filled by arac_detay_getir are   *)
(* left out.                                                               *)
(***************************************************************************)
EXTENDS Integers, Sequences, FiniteSets, TLC

VARIABLES
    araclar,              \* table araclar, in rowid order
    arac_seq,             \* AUTOINCREMENT counter of araclar
    yakit_kayitlari,      \* table yakit_kayitlari, in rowid order
    depo_dolumlari,       \* table depo_dolumlari, in rowid order
    depo,                 \* table depo
    bakim_tamirat,        \* table bakim_tamirat, in rowid order
    disk,                 \* the committed contents of the database file
    arac_tree,            \* rows shown in the vehicle list
    yakit_tree,           \* rows shown in the fuel-entry list
    depo_tree,            \* rows shown in the depot-fill list
    bakim_tree,           \* rows shown in the maintenance list
    rapor_tree,           \* rows shown in the report list
    yakit_arac_combobox,  \* [values, text]
    rapor_arac_combobox,
    arac_detay_combobox,
    bakim_arac_combobox,
    depo_durum_label,
    ortalama_tuketim_label,
    aylik_ortalama_label,
    yillik_ortalama_label,
    son,                  \* the last handler run: its inputs, outcome and message
    conn,                 \* self.conn and self.cursor: [no, acik], the no-th connect of the run
    yedek                 \* backup_database: [pc, hedef, okundu], pc its position

tabloVars == <<araclar, arac_seq, yakit_kayitlari, depo_dolumlari, depo, bakim_tamirat>>
comboVars == <<yakit_arac_combobox, rapor_arac_combobox, arac_detay_combobox, bakim_arac_combobox>>
istVars == <<ortalama_tuketim_label, aylik_ortalama_label, yillik_ortalama_label>>
vars == <<araclar, arac_seq, yakit_kayitlari, depo_dolumlari, depo, bakim_tamirat, disk,
          arac_tree, yakit_tree, depo_tree, bakim_tree, rapor_tree,
          yakit_arac_combobox, rapor_arac_combobox, arac_detay_combobox, bakim_arac_combobox,
          depo_durum_label, ortalama_tuketim_label, aylik_ortalama_label, yillik_ortalama_label,
          son, conn, yedek>>
baglantiVars == <<conn, yedek>>

(***************************************************************************)
(* Bounds of the model.                                                    *)
(***************************************************************************)
MaxAracId == 2
MaxYakit == 2
MaxYakitIst == 3
MaxDolum == 1
MaxBakim == 1

(***************************************************************************)
(* Text.                                                                   *)
(***************************************************************************)
Bos == <<>>

Kod(c) ==
    CASE c = " " -> 32 [] c = "(" -> 40 [] c = ")" -> 41 [] c = "-" -> 45
      [] c = "0" -> 48 [] c = "1" -> 49 [] c = "2" -> 50 [] c = "3" -> 51
      [] c = "4" -> 52 [] c = "5" -> 53 [] c = "6" -> 54 [] c = "7" -> 55
      [] c = "8" -> 56 [] c = "9" -> 57 [] c = ":" -> 58
      [] c = "A" -> 65 [] c = "B" -> 66 [] c = "D" -> 68 [] c = "I" -> 73
      [] c = "a" -> 97 [] c = "b" -> 98
      [] OTHER -> 120

RakamMi(c) == Kod(c) \in 48..57

\* get().strip() without .upper()
UpperYok(c) == c

Upper(c) == CASE c = "a" -> "A" [] c = "b" -> "B" [] OTHER -> c

UpperStr(s) == [i \in 1..Len(s) |-> Upper(s[i])]

RECURSIVE LStrip(_)
LStrip(s) == IF s # <<>> /\ Head(s) = " " THEN LStrip(Tail(s)) ELSE s

RECURSIVE RStrip(_)
RStrip(s) == IF s # <<>> /\ s[Len(s)] = " " THEN RStrip(SubSeq(s, 1, Len(s) - 1)) ELSE s

Strip(s) == RStrip(LStrip(s))

RECURSIVE RStripParen(_)
RStripParen(s) ==
    IF s # <<>> /\ s[Len(s)] = ")" THEN RStripParen(SubSeq(s, 1, Len(s) - 1)) ELSE s

\* int(s) of Python accepts s when, white space around it removed, it is a
\* non-empty run of digits (signs and underscores are not in the alphabet).
IntGibi(s) == Strip(s) # <<>> /\ \A i \in 1..Len(Strip(s)) : RakamMi(Strip(s)[i])

RECURSIVE BasamakDegeri(_)
BasamakDegeri(s) ==
    IF s = <<>> THEN 0 ELSE 10 * BasamakDegeri(SubSeq(s, 1, Len(s) - 1)) + (Kod(s[Len(s)]) - 48)

IntDeger(s) == BasamakDegeri(Strip(s))

Rakam(d) == CASE d = 0 -> "0" [] d = 1 -> "1" [] d = 2 -> "2" [] d = 3 -> "3" [] d = 4 -> "4"
              [] d = 5 -> "5" [] d = 6 -> "6" [] d = 7 -> "7" [] d = 8 -> "8" [] OTHER -> "9"

RECURSIVE IntMetin(_)
IntMetin(n) == IF n < 10 THEN <<Rakam(n)>> ELSE IntMetin(n \div 10) \o <<Rakam(n % 10)>>

\* Position of the first "ID:" in s, 0 when there is none.
IlkIdYeri(s) ==
    LET yerler == {i \in 1..(Len(s) - 2) : s[i] = "I" /\ s[i + 1] = "D" /\ s[i + 2] = ":"}
    IN  IF yerler = {} THEN 0 ELSE CHOOSE i \in yerler : \A j \in yerler : i <= j

\* arac.split("ID:")[1]: the text between the first and the second "ID:".
\* [var |-> FALSE] stands for the IndexError of a text without "ID:".
SplitId1(s) ==
    LET i == IlkIdYeri(s)
        kalan == SubSeq(s, i + 3, Len(s))
        j == IlkIdYeri(kalan)
    IN  IF i = 0 THEN [var |-> FALSE, metin |-> Bos]
        ELSE [var |-> TRUE, metin |-> IF j = 0 THEN kalan ELSE SubSeq(kalan, 1, j - 1)]

\* int(arac.split("ID:")[1].rstrip(")")): [ok, arac_id].
AracIdCoz(arac) ==
    LET p == SplitId1(arac)
        m == RStripParen(p.metin)
    IN  IF p.var /\ IntGibi(m) THEN [ok |-> TRUE, arac_id |-> IntDeger(m)]
        ELSE [ok |-> FALSE, arac_id |-> 0]

\* f"{plaka} (ID:{arac_id})"
ComboMetni(plaka, arac_id) == plaka \o <<" ", "(", "I", "D", ":">> \o IntMetin(arac_id) \o <<")">>

TumAraclar == <<"T", "u", "m", " ", "A", "r", "a", "c", "l", "a", "r">>

\* ttk.Treeview.item(...)['values'] hands every value through
\* _convert_stringval: a text that int() accepts comes back as that int.  The
\* int is kept as its decimal text, which is what SQLite compares with a TEXT
\* column and what an f-string prints.
TkDeger(s) == IF IntGibi(s) THEN IntMetin(IntDeger(s)) ELSE s

RECURSIVE LexKucuk(_, _)
LexKucuk(a, b) ==
    IF b = <<>> THEN FALSE
    ELSE IF a = <<>> THEN TRUE
    ELSE IF Head(a) # Head(b) THEN Head(a) < Head(b)
    ELSE LexKucuk(Tail(a), Tail(b))

Kodlar(s) == [i \in 1..Len(s) |-> Kod(s[i])]

\* ORDER BY k: s is a sequence of [k, v], k a sequence of character codes;
\* rows with equal keys keep their rowid order.
RECURSIVE SiraliEkle(_, _)
SiraliEkle(x, s) ==
    IF s = <<>> THEN <<x>>
    ELSE IF LexKucuk(x.k, Head(s).k) THEN <<x>> \o s
    ELSE <<Head(s)>> \o SiraliEkle(x, Tail(s))

RECURSIVE OrderBy(_)
OrderBy(s) == IF s = <<>> THEN <<>> ELSE SiraliEkle(s[Len(s)], OrderBy(SubSeq(s, 1, Len(s) - 1)))

Ters(s) == [i \in 1..Len(s) |-> s[Len(s) + 1 - i]]

OrderByDesc(s) == Ters(OrderBy(s))

Degerler(s) == [i \in 1..Len(s) |-> s[i].v]

(***************************************************************************)
(* Timestamps.  A timestamp text is [bicim, gun, ay, yil]: bicim names the *)
(* layout of the text and TarihMetin gives its characters (the time of day *)
(* is the same in every text and is left out).                             *)
(***************************************************************************)
Tarih(b, g, a, y) == [bicim |-> b, gun |-> g, ay |-> a, yil |-> y]

TarihYok == Tarih("bos", 0, 0, 0)

IkiHane(n) == <<48 + (n \div 10), 48 + (n % 10)>>

SayiKodlari(n) == Kodlar(IntMetin(n))

TarihMetin(t) ==
    CASE t.bicim = "gg-aa-YYYY" -> IkiHane(t.gun) \o <<45>> \o IkiHane(t.ay) \o <<45>> \o SayiKodlari(t.yil)
      [] t.bicim = "g-a-YYYY" -> SayiKodlari(t.gun) \o <<45>> \o SayiKodlari(t.ay) \o <<45>> \o SayiKodlari(t.yil)
      [] t.bicim = "YYYY-aa-gg" -> SayiKodlari(t.yil) \o <<45>> \o IkiHane(t.ay) \o <<45>> \o IkiHane(t.gun)
      [] t.bicim = "bos" -> <<>>
      [] OTHER -> <<120>>

\* datetime.strptime(tarih, "%d-%m-%Y %H:%M") succeeds: day and month of one
\* or two digits, a four-digit year.
StrptimeGecerli(t) ==
    /\ t.bicim \in {"gg-aa-YYYY", "g-a-YYYY"}
    /\ t.gun \in 1..31
    /\ t.ay \in 1..12
    /\ t.yil \in 1000..9999

\* The date functions of SQLite read a text only when it starts YYYY-MM-DD;
\* of any other text strftime() is NULL.
SqliteTarihOkur(t) == t.bicim = "YYYY-aa-gg" /\ t.gun \in 1..31 /\ t.ay \in 1..12

\* strftime('%m-%Y', tarih) and strftime('%Y', tarih)
StrftimeAy(t) ==
    IF SqliteTarihOkur(t) THEN [null |-> FALSE, ay |-> t.ay, yil |-> t.yil]
    ELSE [null |-> TRUE, ay |-> 0, yil |-> 0]

StrftimeYil(t) ==
    IF SqliteTarihOkur(t) THEN [null |-> FALSE, ay |-> 0, yil |-> t.yil]
    ELSE [null |-> TRUE, ay |-> 0, yil |-> 0]

(***************************************************************************)
(* Form input.  A numeric entry is [tip, n]: "sayi" is the decimal text of *)
(* the integer n, "ondalik" a text with a fraction part, "metin" a text    *)
(* that is no number, "bos" the empty entry.                               *)
(***************************************************************************)
Sayi(n) == [tip |-> "sayi", n |-> n]

IntOlur(g) == g.tip = "sayi"

FloatOlur(g) == g.tip \in {"sayi", "ondalik"}

\* float("inf"): above every litre count of the model, as in "miktar <= 0".
Sonsuz == 1000000

\* float("nan"), read back from a REAL column as NULL.  "nan <= 0" is False.
NaN == 2000000

SonsuzMu(x) == x = Sonsuz \/ x = 0 - Sonsuz

\* a + b of IEEE-754 doubles and of SQLite, on whole litres, infinities and NaN/NULL
Topla(a, b) ==
    IF a = NaN \/ b = NaN THEN NaN
    ELSE IF SonsuzMu(a) /\ SonsuzMu(b) THEN (IF a = b THEN a ELSE NaN)
    ELSE IF SonsuzMu(a) THEN a
    ELSE IF SonsuzMu(b) THEN b
    ELSE a + b

\* -b
Eksi(b) == IF b = NaN THEN NaN ELSE 0 - b

(***************************************************************************)
(* Queries.                                                                *)
(***************************************************************************)
SorguLimit == 500

Limit(s, n) == SubSeq(s, 1, IF Len(s) < n THEN Len(s) ELSE n)

\* The database file: var is whether it holds the five tables.
Tablolar(a, q, y, dd, d, b) ==
    [var |-> TRUE, araclar |-> a, arac_seq |-> q, yakit_kayitlari |-> y, depo_dolumlari |-> dd,
     depo |-> d, bakim_tamirat |-> b]

\* A file of length 0, which SQLite opens as a database without tables.
BosDosya ==
    [var |-> FALSE, araclar |-> <<>>, arac_seq |-> 0, yakit_kayitlari |-> <<>>,
     depo_dolumlari |-> <<>>, depo |-> <<>>, bakim_tamirat |-> <<>>]

\* SELECT arac_id FROM araclar WHERE plaka = ?  (fetchone: <<>> when no row)
AracIdSorgu(ar, plaka) == SelectSeq(ar, LAMBDA r : r.plaka = plaka)

AracVar(ar, arac_id) == \E i \in 1..Len(ar) : ar[i].arac_id = arac_id

AracYeri(ar, arac_id) == CHOOSE i \in 1..Len(ar) : ar[i].arac_id = arac_id

\* SELECT plaka, ..., mevcut_km, ... FROM araclar ORDER BY plaka
AracListesiSorgu(ar) ==
    Degerler(OrderBy([i \in 1..Len(ar) |->
        [k |-> Kodlar(ar[i].plaka),
         v |-> [plaka |-> ar[i].plaka, mevcut_km |-> ar[i].mevcut_km]]]))

\* SELECT arac_id, plaka FROM araclar ORDER BY plaka, each row as f"{plaka} (ID:{arac_id})"
ComboSorgu(ar) ==
    Degerler(OrderBy([i \in 1..Len(ar) |->
        [k |-> Kodlar(ar[i].plaka), v |-> ComboMetni(ar[i].plaka, ar[i].arac_id)]]))

\* combobox['values'] = araclar; if araclar: combobox.current(0)
ComboGuncelle(cb, araclar_) ==
    [values |-> araclar_, text |-> IF araclar_ # <<>> THEN araclar_[1] ELSE cb.text]

\* The user picks entry i of the drop-down list (0: leaves the box as it is).
ComboSec(cb, i) == IF i = 0 THEN cb ELSE [cb EXCEPT !.text = cb.values[i]]

\* SELECT y.tarih, a.plaka, y.km, y.yakit_miktari FROM yakit_kayitlari y
\* JOIN araclar a ON y.arac_id = a.arac_id ORDER BY y.tarih DESC LIMIT 500
YakitKayitlariSorgu(yk, ar) ==
    LET es == SelectSeq(yk, LAMBDA r : AracVar(ar, r.arac_id))
    IN  Limit(Degerler(OrderByDesc([i \in 1..Len(es) |->
            [k |-> TarihMetin(es[i].tarih),
             v |-> [tarih |-> es[i].tarih, plaka |-> ar[AracYeri(ar, es[i].arac_id)].plaka,
                    km |-> es[i].km, miktar |-> es[i].yakit_miktari]]])), SorguLimit)

\* SELECT tarih, miktar FROM depo_dolumlari ORDER BY tarih DESC LIMIT 500
DepoKayitlariSorgu(dd) ==
    Limit(Degerler(OrderByDesc([i \in 1..Len(dd) |->
        [k |-> TarihMetin(dd[i].tarih), v |-> [tarih |-> dd[i].tarih, miktar |-> dd[i].miktar]]])),
        SorguLimit)

\* SELECT mevcut_yakit FROM depo WHERE depo_id = 1  (fetchone)
DepoSorgu(d) == SelectSeq(d, LAMBDA r : r.depo_id = 1)

\* depo_durumunu_guncelle: the text of depo_durum_label
\* (a NULL level makes the format raise TypeError: the label keeps its text)
DepoDurumu(d, eski) ==
    IF DepoSorgu(d) = <<>> THEN [tur |-> "bilinmiyor", deger |-> 0]
    ELSE IF DepoSorgu(d)[1].mevcut_yakit = NaN THEN eski
    ELSE [tur |-> "litre", deger |-> DepoSorgu(d)[1].mevcut_yakit]

\* UPDATE depo SET mevcut_yakit = mevcut_yakit + ? WHERE depo_id = 1
DepoEkle(d, miktar) ==
    [i \in 1..Len(d) |-> IF d[i].depo_id = 1
                         THEN [d[i] EXCEPT !.mevcut_yakit = Topla(d[i].mevcut_yakit, miktar)]
                         ELSE d[i]]

\* UPDATE depo SET mevcut_yakit = MAX(0, mevcut_yakit - ?) WHERE depo_id = 1
DepodanDusSifirda(d, miktar) ==
    [i \in 1..Len(d) |->
        IF d[i].depo_id = 1 /\ Topla(d[i].mevcut_yakit, Eksi(miktar)) < 0
        THEN [d[i] EXCEPT !.mevcut_yakit = 0]
        ELSE IF d[i].depo_id = 1
        THEN [d[i] EXCEPT !.mevcut_yakit = Topla(d[i].mevcut_yakit, Eksi(miktar))]
        ELSE d[i]]

\* UPDATE depo SET mevcut_yakit = mevcut_yakit - ? WHERE depo_id = 1  (yakit_ekle)
DepodanDus(d, miktar) == DepoEkle(d, Eksi(miktar))

\* yakit_kaydi_sil without the UPDATE of lines 1398-1401
DepoyaIadeYok(d, miktar) == d

\* UPDATE depo SET mevcut_yakit = mevcut_yakit + ? WHERE depo_id = 1  (yakit_kaydi_sil)
DepoyaIade(d, miktar) == DepoEkle(d, miktar)

\* SELECT tarih, tespit_edilen_ariza FROM bakim_tamirat WHERE arac_id = ? ORDER BY tarih DESC
\* (arac_id is no column of the list: it keeps, for the properties, the
\* vehicle the row was fetched for)
BakimSorgu(bt, arac_id) ==
    LET es == SelectSeq(bt, LAMBDA r : r.arac_id = arac_id)
    IN  Degerler(OrderByDesc([i \in 1..Len(es) |->
            [k |-> TarihMetin(es[i].tarih),
             v |-> [tarih |-> es[i].tarih, ariza |-> es[i].tespit_edilen_ariza,
                    arac_id |-> arac_id]]]))

(***************************************************************************)
(* The state after __init__ on a new database file: create_tables,         *)
(* initialize_database (the depot row), setup_ui and load_initial_data.    *)
(***************************************************************************)
\* son.onceki is the handler run before the last one, kept by yakit_kaydi_sil
\* only: what it needs to tell that it deletes the entry just written.
Iz(s) == [op |-> s.op, sonuc |-> s.sonuc, arac_id |-> s.arac_id, km |-> s.km,
          miktar |-> s.miktar, tarih |-> s.tarih, depo_once |-> s.depo_once]

IzYok == [op |-> "", sonuc |-> "", arac_id |-> 0, km |-> 0, miktar |-> 0, tarih |-> TarihYok,
          depo_once |-> 0]

Son(op, sonuc, mesaj, arac_id, plaka, km, miktar, tarih, depo_once) ==
    [op |-> op, sonuc |-> sonuc, mesaj |-> mesaj, arac_id |-> arac_id, plaka |-> plaka,
     km |-> km, miktar |-> miktar, tarih |-> tarih, depo_once |-> depo_once, onceki |-> IzYok]

SonKisa(op, sonuc, mesaj) == Son(op, sonuc, mesaj, 0, Bos, 0, 0, TarihYok, 0)

Cizgi == [tur |-> "-", deger |-> 0]

\* "Depo Durumu: Yükleniyor...", the text depo_durum_label is built with
Yukleniyor == [tur |-> "yukleniyor", deger |-> 0]

\* no backup is under way
YedekYok == [pc |-> "bos", hedef |-> "", okundu |-> "hayir"]

Init ==
    /\ araclar = <<>>
    /\ arac_seq = 0
    /\ yakit_kayitlari = <<>>
    /\ depo_dolumlari = <<>>
    /\ depo = <<[depo_id |-> 1, mevcut_yakit |-> 0]>>
    /\ bakim_tamirat = <<>>
    /\ disk = Tablolar(<<>>, 0, <<>>, <<>>, <<[depo_id |-> 1, mevcut_yakit |-> 0]>>, <<>>)
    /\ arac_tree = <<>>
    /\ yakit_tree = <<>>
    /\ depo_tree = <<>>
    /\ bakim_tree = <<>>
    /\ rapor_tree = <<>>
    /\ yakit_arac_combobox = [values |-> <<>>, text |-> Bos]
    /\ rapor_arac_combobox = [values |-> <<TumAraclar>>, text |-> TumAraclar]
    /\ arac_detay_combobox = [values |-> <<>>, text |-> Bos]
    /\ bakim_arac_combobox = [values |-> <<>>, text |-> Bos]
    /\ depo_durum_label = [tur |-> "litre", deger |-> 0]
    /\ ortalama_tuketim_label = Cizgi
    /\ aylik_ortalama_label = Cizgi
    /\ yillik_ortalama_label = Cizgi
    /\ son = SonKisa("baslat", "basari", "")
    /\ conn = [no |-> 1, acik |-> TRUE]
    /\ yedek = YedekYok

\* self.conn.commit()
Commit ==
    disk' = Tablolar(araclar', arac_seq', yakit_kayitlari', depo_dolumlari', depo', bakim_tamirat')

\* an except clause without self.conn.rollback(): the connection keeps what
\* the statements before the failure wrote
GeriAlma(bekleyen, kayitli) == bekleyen

\* self.conn.rollback(): the connection sees the committed tables again
GeriAl(bekleyen, kayitli) == kayitli

\* self.conn.rollback() after the statements of a handler left the tables as in bekleyen
RollbackSonra(bekleyen) ==
    /\ araclar' = GeriAl(bekleyen, disk).araclar
    /\ arac_seq' = GeriAl(bekleyen, disk).arac_seq
    /\ yakit_kayitlari' = GeriAl(bekleyen, disk).yakit_kayitlari
    /\ depo_dolumlari' = GeriAl(bekleyen, disk).depo_dolumlari
    /\ depo' = GeriAl(bekleyen, disk).depo
    /\ bakim_tamirat' = GeriAl(bekleyen, disk).bakim_tamirat
    /\ UNCHANGED disk

\* self.conn.rollback() with no statement of the handler executed
Rollback ==
    RollbackSonra(Tablolar(araclar, arac_seq, yakit_kayitlari, depo_dolumlari, depo,
                           bakim_tamirat))

gorunumVars == <<arac_tree, yakit_tree, depo_tree, bakim_tree, rapor_tree, comboVars,
                 depo_durum_label, istVars>>

\* show_error(mesaj) and return, no statement executed
Reddet(s) == son' = s /\ UNCHANGED <<tabloVars, disk, gorunumVars>>

(***************************************************************************)
(* arac_ekle                                                               *)
(***************************************************************************)
\* araclar.plaka without its UNIQUE constraint
PlakaSerbest(ar, plaka) == FALSE

\* INSERT INTO araclar (...): the UNIQUE constraint on plaka decides
PlakaKayitli(ar, plaka) == \E i \in 1..Len(ar) : ar[i].plaka = plaka

AracEkle(g_plaka, g_model, g_km, g_model_yili) ==
    LET plaka == UpperStr(Strip(g_plaka))
        model == Strip(g_model)
        yeni_id == arac_seq + 1
        satir == [arac_id |-> yeni_id, plaka |-> plaka, model |-> model, mevcut_km |-> g_km.n,
                  model_yili |-> g_model_yili]
    IN  IF plaka = Bos \/ model = Bos \/ g_km.tip = "bos"
        THEN Reddet(Son("arac_ekle", "hata", "Lutfen zorunlu alanlari doldurun", 0, plaka, 0, 0,
                        TarihYok, 0))
        ELSE IF ~IntOlur(g_km) \/ g_km.n < 0
                \/ (g_model_yili.tip # "bos" /\ ~IntOlur(g_model_yili))
        THEN \* ValueError
             Reddet(Son("arac_ekle", "hata", "Gecersiz KM degeri", 0, plaka, 0, 0, TarihYok, 0))
        ELSE IF PlakaKayitli(araclar, plaka)
        THEN \* sqlite3.IntegrityError: the statement is undone, nothing is rolled back
             Reddet(Son("arac_ekle", "hata", "Bu plaka zaten kayitli!", 0, plaka, 0, 0, TarihYok, 0))
        ELSE /\ araclar' = Append(araclar, satir)
             /\ arac_seq' = yeni_id
             /\ UNCHANGED <<yakit_kayitlari, depo_dolumlari, depo, bakim_tamirat>>
             /\ Commit
             /\ arac_tree' = AracListesiSorgu(araclar')
             /\ yakit_arac_combobox' = ComboGuncelle(yakit_arac_combobox, ComboSorgu(araclar'))
             /\ rapor_arac_combobox' =
                    ComboGuncelle(rapor_arac_combobox, <<TumAraclar>> \o ComboSorgu(araclar'))
             /\ arac_detay_combobox' = ComboGuncelle(arac_detay_combobox, ComboSorgu(araclar'))
             /\ bakim_arac_combobox' = ComboGuncelle(bakim_arac_combobox, ComboSorgu(araclar'))
             /\ UNCHANGED <<yakit_tree, depo_tree, bakim_tree, rapor_tree, depo_durum_label, istVars>>
             /\ son' = Son("arac_ekle", "basari", "arac basariyla eklendi", yeni_id, plaka,
                           g_km.n, 0, TarihYok, 0)

(***************************************************************************)
(* arac_sil: sel is the selected row of arac_tree (0: none), onay the      *)
(* answer to askyesno.                                                     *)
(***************************************************************************)
\* DELETE FROM <table> WHERE arac_id = ?
AracinKayitlariniSil(s, arac_id) == SelectSeq(s, LAMBDA r : r.arac_id # arac_id)

AracSil(sel, onay) ==
    IF sel = 0
    THEN Reddet(SonKisa("arac_sil", "hata", "Lutfen silmek icin bir arac secin!"))
    ELSE
    LET gosterilen == arac_tree[sel].plaka
        plaka == TkDeger(gosterilen)
        result == AracIdSorgu(araclar, plaka)
        arac_id == result[1].arac_id
    IN  IF ~onay
        THEN Reddet(Son("arac_sil", "iptal", "", 0, gosterilen, 0, 0, TarihYok, 0))
        ELSE IF result = <<>>
        THEN Reddet(Son("arac_sil", "hata", "Arac bulunamadi!", 0, gosterilen, 0, 0, TarihYok, 0))
        ELSE /\ yakit_kayitlari' = AracinKayitlariniSil(yakit_kayitlari, arac_id)
             /\ bakim_tamirat' = AracinKayitlariniSil(bakim_tamirat, arac_id)
             /\ araclar' = AracinKayitlariniSil(araclar, arac_id)
             /\ UNCHANGED <<arac_seq, depo_dolumlari, depo>>
             /\ Commit
             /\ arac_tree' = AracListesiSorgu(araclar')
             /\ yakit_arac_combobox' = ComboGuncelle(yakit_arac_combobox, ComboSorgu(araclar'))
             /\ yakit_tree' = YakitKayitlariSorgu(yakit_kayitlari', araclar')
             /\ rapor_arac_combobox' =
                    ComboGuncelle(rapor_arac_combobox, <<TumAraclar>> \o ComboSorgu(araclar'))
             /\ arac_detay_combobox' = ComboGuncelle(arac_detay_combobox, ComboSorgu(araclar'))
             /\ bakim_arac_combobox' = ComboGuncelle(bakim_arac_combobox, ComboSorgu(araclar'))
             /\ UNCHANGED <<depo_tree, bakim_tree, rapor_tree, depo_durum_label, istVars>>
             /\ son' = Son("arac_sil", "basari", "arac ve tum kayitlari silindi", arac_id,
                           gosterilen, 0, 0, TarihYok, 0)

(***************************************************************************)
(* yakit_ekle: secim is the entry picked in yakit_arac_combobox (0: the    *)
(* box as it stands), the rest are the form entries.                       *)
(***************************************************************************)
\* UPDATE araclar SET mevcut_km = MAX(mevcut_km, ?) WHERE arac_id = ?
MevcutKmYukselt(ar, arac_id, km) ==
    [i \in 1..Len(ar) |-> IF ar[i].arac_id = arac_id /\ km > ar[i].mevcut_km
                          THEN [ar[i] EXCEPT !.mevcut_km = km]
                          ELSE ar[i]]

\* UPDATE araclar SET mevcut_km = ? WHERE arac_id = ?
MevcutKmYaz(ar, arac_id, km) ==
    [i \in 1..Len(ar) |-> IF ar[i].arac_id = arac_id THEN [ar[i] EXCEPT !.mevcut_km = km]
                          ELSE ar[i]]

\* if km < 0 or miktar < 0
KmMiktarGecersizGevsek(km, miktar) == km < 0 \/ miktar < 0

\* if km < 0 or miktar <= 0
KmMiktarGecersiz(km, miktar) == km < 0 \/ miktar <= 0

YakitEkle(secim, g_km, g_miktar, g_tarih) ==
    LET cb == ComboSec(yakit_arac_combobox, secim)
        arac == cb.text
        coz == AracIdCoz(arac)
        arac_id == coz.arac_id
        km == g_km.n
        miktar == g_miktar.n
        seviye == IF DepoSorgu(depo) = <<>> THEN 0 ELSE DepoSorgu(depo)[1].mevcut_yakit
        Red(sonuc) == /\ son' = sonuc
                      /\ yakit_arac_combobox' = cb
                      /\ UNCHANGED <<arac_tree, yakit_tree, depo_tree, bakim_tree, rapor_tree,
                                     rapor_arac_combobox, arac_detay_combobox,
                                     bakim_arac_combobox, depo_durum_label, istVars>>
    IN  IF arac = Bos \/ g_km.tip = "bos" \/ g_miktar.tip = "bos" \/ g_tarih.bicim = "bos"
        THEN Red(SonKisa("yakit_ekle", "hata", "Lutfen zorunlu alanlari doldurun!"))
             /\ UNCHANGED <<tabloVars, disk>>
        ELSE IF ~SplitId1(arac).var
        THEN \* IndexError: except Exception, with rollback
             Red(SonKisa("yakit_ekle", "hata", "Yakit eklenirken hata")) /\ Rollback
        ELSE IF ~coz.ok \/ ~IntOlur(g_km) \/ ~FloatOlur(g_miktar) \/ KmMiktarGecersiz(km, miktar)
                \/ ~StrptimeGecerli(g_tarih)
        THEN \* ValueError
             Red(SonKisa("yakit_ekle", "hata", "Gecersiz deger"))
             /\ UNCHANGED <<tabloVars, disk>>
        ELSE IF miktar = NaN
        THEN \* the INSERT fails, yakit_miktari is NOT NULL: except Exception, with rollback
             Red(SonKisa("yakit_ekle", "hata", "Yakit eklenirken hata")) /\ Rollback
        ELSE /\ yakit_kayitlari' = Append(yakit_kayitlari,
                    [arac_id |-> arac_id, km |-> km, yakit_miktari |-> miktar, tarih |-> g_tarih])
             /\ araclar' = MevcutKmYaz(araclar, arac_id, km)
             /\ depo' = DepodanDus(depo, miktar)
             /\ UNCHANGED <<arac_seq, depo_dolumlari, bakim_tamirat>>
             /\ Commit
             /\ yakit_tree' = YakitKayitlariSorgu(yakit_kayitlari', araclar')
             /\ arac_tree' = AracListesiSorgu(araclar')
             /\ yakit_arac_combobox' = ComboGuncelle(cb, ComboSorgu(araclar'))
             /\ depo_durum_label' = DepoDurumu(depo', depo_durum_label)
             /\ UNCHANGED <<depo_tree, bakim_tree, rapor_tree, rapor_arac_combobox,
                            arac_detay_combobox, bakim_arac_combobox, istVars>>
             /\ son' = Son("yakit_ekle", "basari", "Yakit kaydi basariyla eklendi!", arac_id,
                           Bos, km, miktar, g_tarih, seviye)

(***************************************************************************)
(* yakit_kaydi_sil: sel is the selected row of yakit_tree (0: none).       *)
(***************************************************************************)
\* yakit_kaydi_sil with an UPDATE araclar SET mevcut_km = 0 WHERE arac_id = ? added
YakitKaydiSilKmGeri(sel, onay) ==
    IF sel = 0
    THEN Reddet(SonKisa("yakit_kaydi_sil", "hata", "Lutfen silmek icin bir kayit secin!"))
    ELSE
    LET kayit == yakit_tree[sel]
        tarih == kayit.tarih
        plaka == TkDeger(kayit.plaka)
        km == kayit.km
        miktar == kayit.miktar
        result == AracIdSorgu(araclar, plaka)
        arac_id == result[1].arac_id
        seviye == IF DepoSorgu(depo) = <<>> THEN 0 ELSE DepoSorgu(depo)[1].mevcut_yakit
    IN  IF ~onay
        THEN Reddet(Son("yakit_kaydi_sil", "iptal", "", 0, kayit.plaka, km, miktar, tarih, seviye))
        ELSE IF result = <<>>
        THEN Reddet(Son("yakit_kaydi_sil", "hata", "Arac bulunamadi!", 0, kayit.plaka, km,
                        miktar, tarih, seviye))
        ELSE /\ yakit_kayitlari' = SelectSeq(yakit_kayitlari,
                    LAMBDA r : ~(/\ r.arac_id = arac_id
                                 /\ TarihMetin(r.tarih) = TarihMetin(tarih)
                                 /\ r.km = km))
             /\ depo' = DepoyaIade(depo, miktar)
             /\ araclar' = MevcutKmYaz(araclar, arac_id, 0)
             /\ UNCHANGED <<arac_seq, depo_dolumlari, bakim_tamirat>>
             /\ Commit
             /\ yakit_tree' = YakitKayitlariSorgu(yakit_kayitlari', araclar')
             /\ depo_durum_label' = DepoDurumu(depo', depo_durum_label)
             /\ UNCHANGED <<arac_tree, depo_tree, bakim_tree, rapor_tree, comboVars, istVars>>
             /\ son' = [Son("yakit_kaydi_sil", "basari", "Yakit kaydi basariyla silindi!",
                            arac_id, kayit.plaka, km, miktar, tarih, seviye)
                           EXCEPT !.onceki = Iz(son)]

YakitKaydiSil(sel, onay) ==
    IF sel = 0
    THEN Reddet(SonKisa("yakit_kaydi_sil", "hata", "Lutfen silmek icin bir kayit secin!"))
    ELSE
    LET kayit == yakit_tree[sel]
        tarih == kayit.tarih
        plaka == TkDeger(kayit.plaka)
        km == kayit.km
        miktar == kayit.miktar
        result == AracIdSorgu(araclar, plaka)
        arac_id == result[1].arac_id
        seviye == IF DepoSorgu(depo) = <<>> THEN 0 ELSE DepoSorgu(depo)[1].mevcut_yakit
    IN  IF ~onay
        THEN Reddet(Son("yakit_kaydi_sil", "iptal", "", 0, kayit.plaka, km, miktar, tarih, seviye))
        ELSE IF result = <<>>
        THEN Reddet(Son("yakit_kaydi_sil", "hata", "Arac bulunamadi!", 0, kayit.plaka, km,
                        miktar, tarih, seviye))
        ELSE /\ yakit_kayitlari' = SelectSeq(yakit_kayitlari,
                    LAMBDA r : ~(/\ r.arac_id = arac_id
                                 /\ TarihMetin(r.tarih) = TarihMetin(tarih)
                                 /\ r.km = km))
             /\ depo' = DepoyaIade(depo, miktar)
             /\ UNCHANGED <<araclar, arac_seq, depo_dolumlari, bakim_tamirat>>
             /\ Commit
             /\ yakit_tree' = YakitKayitlariSorgu(yakit_kayitlari', araclar')
             /\ depo_durum_label' = DepoDurumu(depo', depo_durum_label)
             /\ UNCHANGED <<arac_tree, depo_tree, bakim_tree, rapor_tree, comboVars, istVars>>
             /\ son' = [Son("yakit_kaydi_sil", "basari", "Yakit kaydi basariyla silindi!",
                            arac_id, kayit.plaka, km, miktar, tarih, seviye)
                           EXCEPT !.onceki = Iz(son)]

(***************************************************************************)
(* depo_doldur                                                             *)
(***************************************************************************)
DepoDoldur(g_miktar, g_tarih) ==
    LET miktar == g_miktar.n
        seviye == IF DepoSorgu(depo) = <<>> THEN 0 ELSE DepoSorgu(depo)[1].mevcut_yakit
    IN  IF g_miktar.tip = "bos" \/ g_tarih.bicim = "bos"
        THEN Reddet(SonKisa("depo_doldur", "hata", "Lutfen zorunlu alanlari doldurun!"))
        ELSE IF ~FloatOlur(g_miktar) \/ miktar <= 0 \/ ~StrptimeGecerli(g_tarih)
        THEN Reddet(SonKisa("depo_doldur", "hata", "Gecersiz deger"))
        ELSE IF miktar = NaN
        THEN \* the INSERT fails, miktar is NOT NULL: except Exception, with rollback
             /\ son' = SonKisa("depo_doldur", "hata", "Depo doldurulurken hata")
             /\ Rollback
             /\ UNCHANGED gorunumVars
        ELSE /\ depo_dolumlari' = Append(depo_dolumlari, [miktar |-> miktar, tarih |-> g_tarih])
             /\ depo' = DepoEkle(depo, miktar)
             /\ UNCHANGED <<araclar, arac_seq, yakit_kayitlari, bakim_tamirat>>
             /\ Commit
             /\ depo_tree' = DepoKayitlariSorgu(depo_dolumlari')
             /\ depo_durum_label' = DepoDurumu(depo', depo_durum_label)
             /\ UNCHANGED <<arac_tree, yakit_tree, bakim_tree, rapor_tree, comboVars, istVars>>
             /\ son' = Son("depo_doldur", "basari", "Depo basariyla dolduruldu!", 0, Bos, 0,
                           miktar, g_tarih, seviye)

(***************************************************************************)
(* depo_dolum_sil: sel is the selected row of depo_tree (0: none).  The    *)
(* row read back from the tree keeps its timestamp (a text int() rejects)  *)
(* and float() of the shown volume is the stored volume.                   *)
(***************************************************************************)
\* DELETE FROM depo_dolumlari WHERE tarih = ? AND miktar = ?
DolumSatiriSil(dd, tarih, miktar) ==
    SelectSeq(dd, LAMBDA r : ~(TarihMetin(r.tarih) = TarihMetin(tarih) /\ r.miktar = miktar))

DepoDolumSil(sel, onay) ==
    IF sel = 0
    THEN Reddet(SonKisa("depo_dolum_sil", "hata", "Lutfen silmek icin bir kayit secin!"))
    ELSE
    LET kayit == depo_tree[sel]
        tarih == kayit.tarih
        miktar == kayit.miktar
        seviye == IF DepoSorgu(depo) = <<>> THEN 0 ELSE DepoSorgu(depo)[1].mevcut_yakit
    IN  IF ~onay
        THEN Reddet(Son("depo_dolum_sil", "iptal", "", 0, Bos, 0, miktar, tarih, seviye))
        ELSE /\ depo' = DepodanDus(depo, miktar)
             /\ depo_dolumlari' = DolumSatiriSil(depo_dolumlari, tarih, miktar)
             /\ UNCHANGED <<araclar, arac_seq, yakit_kayitlari, bakim_tamirat>>
             /\ Commit
             /\ depo_tree' = DepoKayitlariSorgu(depo_dolumlari')
             /\ depo_durum_label' = DepoDurumu(depo', depo_durum_label)
             /\ UNCHANGED <<arac_tree, yakit_tree, bakim_tree, rapor_tree, comboVars, istVars>>
             /\ son' = Son("depo_dolum_sil", "basari", "Depo dolum kaydi basariyla silindi!", 0,
                           Bos, 0, miktar, tarih, seviye)

(***************************************************************************)
(* on_closing, confirmed, and the program started again on the database    *)
(* file it left: setup_database, create_tables, initialize_database,       *)
(* setup_ui and load_initial_data.                                         *)
(***************************************************************************)
\* CREATE TABLE IF NOT EXISTS: var is whether the database holds the table
CreateTableIfNotExists(var, t) == IF var THEN t ELSE <<>>

\* INSERT OR REPLACE INTO depo (depo_id, mevcut_yakit) VALUES (1, 0)
InitializeDatabaseReplace(d) ==
    Append(SelectSeq(d, LAMBDA r : r.depo_id # 1), [depo_id |-> 1, mevcut_yakit |-> 0])

\* INSERT OR IGNORE INTO depo (depo_id, mevcut_yakit) VALUES (1, 0)
InitializeDatabase(d) ==
    IF \E i \in 1..Len(d) : d[i].depo_id = 1 THEN d
    ELSE Append(d, [depo_id |-> 1, mevcut_yakit |-> 0])

YenidenBaslat ==
    /\ araclar' = CreateTableIfNotExists(disk.var, disk.araclar)
    /\ arac_seq' = IF disk.var THEN disk.arac_seq ELSE 0
    /\ yakit_kayitlari' = CreateTableIfNotExists(disk.var, disk.yakit_kayitlari)
    /\ depo_dolumlari' = CreateTableIfNotExists(disk.var, disk.depo_dolumlari)
    /\ depo' = InitializeDatabase(CreateTableIfNotExists(disk.var, disk.depo))
    /\ bakim_tamirat' = CreateTableIfNotExists(disk.var, disk.bakim_tamirat)
    /\ Commit
    /\ arac_tree' = AracListesiSorgu(araclar')
    /\ yakit_arac_combobox' = ComboGuncelle([values |-> <<>>, text |-> Bos], ComboSorgu(araclar'))
    /\ depo_durum_label' = DepoDurumu(depo', Yukleniyor)
    /\ yakit_tree' = YakitKayitlariSorgu(yakit_kayitlari', araclar')
    /\ depo_tree' = DepoKayitlariSorgu(depo_dolumlari')
    /\ rapor_arac_combobox' = ComboGuncelle([values |-> <<>>, text |-> Bos],
                                            <<TumAraclar>> \o ComboSorgu(araclar'))
    /\ arac_detay_combobox' = ComboGuncelle([values |-> <<>>, text |-> Bos], ComboSorgu(araclar'))
    /\ bakim_arac_combobox' = ComboGuncelle([values |-> <<>>, text |-> Bos], ComboSorgu(araclar'))
    /\ bakim_tree' = <<>>
    /\ rapor_tree' = <<>>
    /\ ortalama_tuketim_label' = Cizgi
    /\ aylik_ortalama_label' = Cizgi
    /\ yillik_ortalama_label' = Cizgi
    /\ son' = SonKisa("baslat", "basari", "")
    /\ conn' = [no |-> 1, acik |-> TRUE]
    /\ yedek' = YedekYok

(***************************************************************************)
(* backup_database, one action per position the handler passes: the check  *)
(* of the file and the save dialog up to conn.close(), the copy, and the   *)
(* connect that follows it.  No other handler runs in between: Tk runs one *)
(* callback at a time and the dialog is modal.                             *)
(***************************************************************************)
\* backup_database without its self.conn.close()
BaglantiKapatma(c) == c

\* self.conn.close()
BaglantiKapat(c) == [c EXCEPT !.acik = FALSE]

\* self.conn = sqlite3.connect(self.db_path); self.cursor = self.conn.cursor()
YeniBaglanti(c) == [no |-> c.no + 1, acik |-> TRUE]

\* dosya_var: os.path.exists(self.db_path); hedef: the path the dialog returned,
\* "" (cancelled), "baska" (another file) or "kendisi" (the database file)
YedekBasla(dosya_var, hedef) ==
    /\ yedek.pc = "bos"
    /\ UNCHANGED <<tabloVars, disk, gorunumVars>>
    /\ IF ~dosya_var
       THEN /\ son' = SonKisa("backup_database", "hata", "Veritabani dosyasi bulunamadi!")
            /\ UNCHANGED <<conn, yedek>>
       ELSE IF hedef = ""
       THEN /\ son' = SonKisa("backup_database", "iptal", "")
            /\ UNCHANGED <<conn, yedek>>
       ELSE /\ conn' = BaglantiKapat(conn)
            /\ yedek' = [pc |-> "kapali", hedef |-> hedef, okundu |-> "hayir"]
            /\ son' = SonKisa("backup_database", "suruyor", "")

\* the with-block of lines 1753-1759 and the message of its outcome: okundu
\* is the state of the connection while the database file was read.  Opening
\* the target with 'wb' empties it before the first read of the source.
YedekKopyala(sonuc) ==
    /\ yedek.pc = "kapali"
    /\ UNCHANGED <<tabloVars, gorunumVars, conn>>
    /\ disk' = IF sonuc = "ok" /\ yedek.hedef = "kendisi" THEN BosDosya ELSE disk
    /\ yedek' = [yedek EXCEPT !.pc = "kopyalandi",
                              !.okundu = IF conn.acik THEN "acikken" ELSE "kapaliyken"]
    /\ son' = CASE sonuc = "ok" ->
                     SonKisa("backup_database", "suruyor", "Veritabani yedegi basariyla alindi")
                [] sonuc = "izin" ->
                     SonKisa("backup_database", "suruyor", "Dosya yazma izni reddedildi!")
                [] OTHER ->
                     SonKisa("backup_database", "suruyor", "Yedek alinirken hata olustu")

\* lines 1769-1778: ilk and ikinci are whether the first and the second
\* sqlite3.connect succeed; the tables are read anew from the file
YedekYenidenBaglan(ilk, ikinci) ==
    /\ yedek.pc = "kopyalandi"
    /\ Rollback
    /\ UNCHANGED gorunumVars
    /\ yedek' = [yedek EXCEPT !.pc = "bos", !.hedef = ""]
    /\ IF ilk
       THEN /\ conn' = YeniBaglanti(conn)
            /\ son' = [son EXCEPT !.sonuc = "bitti"]
       ELSE IF ikinci
       THEN /\ conn' = YeniBaglanti(conn)
            /\ son' = SonKisa("backup_database", "bitti", "Yedekleme islemi sirasinda hata")
       ELSE /\ UNCHANGED conn
            /\ son' = SonKisa("backup_database", "bitti", "Veritabanina yeniden baglanilamadi!")

\* A handler pressed while self.conn is closed or the file holds no table: its
\* first execute raises ProgrammingError or OperationalError, the handler
\* shows the error and no table changes
KapaliBaglantidaYaz(op) ==
    /\ ~conn.acik \/ ~disk.var
    /\ yedek.pc = "bos"
    /\ son' = SonKisa(op, "hata", IF conn.acik THEN "no such table"
                                  ELSE "Cannot operate on a closed database")
    /\ UNCHANGED <<tabloVars, disk, gorunumVars, conn, yedek>>

(***************************************************************************)
(* bakim_kaydi_ekle: secim is the entry picked in bakim_arac_combobox;     *)
(* g_saat is whether strptime(saat, "%H:%M") accepts the time entry.       *)
(***************************************************************************)
BakimKaydiEkle(secim, g_tarih, g_saat, g_ariza) ==
    LET cb == ComboSec(bakim_arac_combobox, secim)
        arac == cb.text
        coz == AracIdCoz(arac)
        arac_id == coz.arac_id
        ariza == Strip(g_ariza)
        Red(sonuc) == /\ son' = sonuc
                      /\ bakim_arac_combobox' = cb
                      /\ UNCHANGED <<arac_tree, yakit_tree, depo_tree, bakim_tree, rapor_tree,
                                     yakit_arac_combobox, rapor_arac_combobox,
                                     arac_detay_combobox, depo_durum_label, istVars>>
    IN  IF arac = Bos
        THEN Red(SonKisa("bakim_kaydi_ekle", "hata", "Lutfen bir arac secin!"))
             /\ UNCHANGED <<tabloVars, disk>>
        ELSE IF ~SplitId1(arac).var
        THEN Red(SonKisa("bakim_kaydi_ekle", "hata", "Bakim kaydi eklenirken hata")) /\ Rollback
        ELSE IF ~coz.ok \/ ~StrptimeGecerli(g_tarih) \/ ~g_saat
        THEN Red(SonKisa("bakim_kaydi_ekle", "hata", "Gecersiz deger"))
             /\ UNCHANGED <<tabloVars, disk>>
        ELSE /\ bakim_tamirat' = Append(bakim_tamirat,
                    [arac_id |-> arac_id, tarih |-> g_tarih, tespit_edilen_ariza |-> ariza])
             /\ UNCHANGED <<araclar, arac_seq, yakit_kayitlari, depo_dolumlari, depo>>
             /\ Commit
             /\ bakim_arac_combobox' = cb
             /\ bakim_tree' = BakimSorgu(bakim_tamirat', arac_id)
             /\ UNCHANGED <<arac_tree, yakit_tree, depo_tree, rapor_tree, yakit_arac_combobox,
                            rapor_arac_combobox, arac_detay_combobox, depo_durum_label, istVars>>
             /\ son' = Son("bakim_kaydi_ekle", "basari", "Bakim kaydi basariyla eklendi!",
                           arac_id, ariza, 0, 0, g_tarih, 0)

(***************************************************************************)
(* bakim_kaydi_sil: sel is the selected row of bakim_tree (0: none); the   *)
(* vehicle is the one bakim_arac_combobox shows.                           *)
(***************************************************************************)
BakimKaydiSil(sel, onay) ==
    IF sel = 0
    THEN Reddet(SonKisa("bakim_kaydi_sil", "hata", "Lutfen silmek icin bir kayit secin!"))
    ELSE
    LET kayit == bakim_tree[sel]
        tarih == kayit.tarih
        ariza == TkDeger(kayit.ariza)
        arac == bakim_arac_combobox.text
        coz == AracIdCoz(arac)
        arac_id == coz.arac_id
    IN  IF ~onay
        THEN Reddet(Son("bakim_kaydi_sil", "iptal", "", 0, kayit.ariza, 0, 0, tarih, 0))
        ELSE IF ~coz.ok
        THEN \* IndexError or ValueError: except Exception, with rollback
             /\ son' = SonKisa("bakim_kaydi_sil", "hata", "Bakim kaydi silinirken hata")
             /\ Rollback
             /\ UNCHANGED gorunumVars
        ELSE /\ bakim_tamirat' = SelectSeq(bakim_tamirat,
                    LAMBDA r : ~(/\ r.arac_id = arac_id
                                 /\ TarihMetin(r.tarih) = TarihMetin(tarih)
                                 /\ r.tespit_edilen_ariza = ariza))
             /\ UNCHANGED <<araclar, arac_seq, yakit_kayitlari, depo_dolumlari, depo>>
             /\ Commit
             /\ bakim_tree' = BakimSorgu(bakim_tamirat', arac_id)
             /\ UNCHANGED <<arac_tree, yakit_tree, depo_tree, rapor_tree, comboVars,
                            depo_durum_label, istVars>>
             /\ son' = Son("bakim_kaydi_sil", "basari", "Bakim kaydi basariyla silindi!",
                           arac_id, kayit.ariza, 0, 0, tarih, 0)

(***************************************************************************)
(* The maintenance tab: the user picks an entry of bakim_arac_combobox     *)
(* (no handler is bound to the box), presses "Bakim Kayitlarini Getir",    *)
(* or selects a row and presses "Kayit Duzenle".                           *)
(***************************************************************************)
BakimAracSec(i) ==
    /\ bakim_arac_combobox' = ComboSec(bakim_arac_combobox, i)
    /\ son' = SonKisa("bakim_arac_sec", "basari", "")
    /\ UNCHANGED <<tabloVars, disk, arac_tree, yakit_tree, depo_tree, bakim_tree, rapor_tree,
                   yakit_arac_combobox, rapor_arac_combobox, arac_detay_combobox,
                   depo_durum_label, istVars>>

BakimKayitlariniGetir ==
    LET arac == bakim_arac_combobox.text
        coz == AracIdCoz(arac)
    IN  /\ UNCHANGED <<tabloVars, disk, arac_tree, yakit_tree, depo_tree, rapor_tree, comboVars,
                       depo_durum_label, istVars>>
        /\ IF arac = Bos
           THEN /\ UNCHANGED bakim_tree
                /\ son' = SonKisa("bakim_kayitlarini_getir", "bos", "")
           ELSE IF ~coz.ok
           THEN /\ UNCHANGED bakim_tree
                /\ son' = SonKisa("bakim_kayitlarini_getir", "hata",
                                  "Bakim kayitlari getirilirken hata")
           ELSE /\ bakim_tree' = BakimSorgu(bakim_tamirat, coz.arac_id)
                /\ son' = Son("bakim_kayitlarini_getir", "basari", "", coz.arac_id, Bos, 0, 0,
                              TarihYok, 0)

\* DELETE FROM bakim_tamirat WHERE arac_id = ? AND tarih = ? AND tespit_edilen_ariza = ?
BakimSatiriSil(bt, arac_id, tarih, ariza) ==
    SelectSeq(bt, LAMBDA r : ~(/\ r.arac_id = arac_id
                               /\ TarihMetin(r.tarih) = TarihMetin(tarih)
                               /\ r.tespit_edilen_ariza = ariza))

\* bakim_kaydi_duzenle: sel is the selected row of bakim_tree (0: none).  The
\* entries of the form it fills are inputs of bakim_kaydi_ekle.
BakimKaydiDuzenle(sel) ==
    IF sel = 0
    THEN Reddet(SonKisa("bakim_kaydi_duzenle", "hata", "Lutfen duzenlemek icin bir kayit secin!"))
    ELSE
    LET kayit == bakim_tree[sel]
        tarih == kayit.tarih
        ariza == TkDeger(kayit.ariza)
        coz == AracIdCoz(bakim_arac_combobox.text)
        arac_id == coz.arac_id
        kayit_detay == SelectSeq(bakim_tamirat,
                           LAMBDA r : /\ r.arac_id = arac_id
                                      /\ TarihMetin(r.tarih) = TarihMetin(tarih)
                                      /\ r.tespit_edilen_ariza = ariza)
    IN  IF ~coz.ok
        THEN \* IndexError or ValueError: except Exception, with rollback
             /\ son' = SonKisa("bakim_kaydi_duzenle", "hata", "Bakim kaydi duzenlenirken hata")
             /\ Rollback
             /\ UNCHANGED gorunumVars
        ELSE IF kayit_detay = <<>>
        THEN Reddet(Son("bakim_kaydi_duzenle", "hata", "Kayit bulunamadi!", arac_id, kayit.ariza,
                        0, 0, tarih, 0))
        ELSE /\ bakim_tamirat' = BakimSatiriSil(bakim_tamirat, arac_id, tarih, ariza)
             /\ UNCHANGED <<araclar, arac_seq, yakit_kayitlari, depo_dolumlari, depo>>
             /\ Commit
             /\ bakim_tree' = BakimSorgu(bakim_tamirat', arac_id)
             /\ UNCHANGED <<arac_tree, yakit_tree, depo_tree, rapor_tree, comboVars,
                            depo_durum_label, istVars>>
             /\ son' = Son("bakim_kaydi_duzenle", "basari", "", arac_id, kayit.ariza, 0, 0,
                           tarih, 0)

(***************************************************************************)
(* arac_detay_guncelle: secim is the entry picked in arac_detay_combobox,  *)
(* g_model_yili the model-year entry, tarihler_gecerli whether strptime    *)
(* accepts the two date entries that are filled in.                        *)
(***************************************************************************)
\* UPDATE araclar SET model_yili = ?, ... without its WHERE arac_id = ?
ModelYiliYazHepsi(ar, arac_id, model_yili) ==
    [i \in 1..Len(ar) |-> [ar[i] EXCEPT !.model_yili = model_yili]]

\* UPDATE araclar SET model_yili = ?, ... WHERE arac_id = ?
ModelYiliYaz(ar, arac_id, model_yili) ==
    [i \in 1..Len(ar) |-> IF ar[i].arac_id = arac_id THEN [ar[i] EXCEPT !.model_yili = model_yili]
                          ELSE ar[i]]

AracDetayGuncelle(secim, g_model_yili, tarihler_gecerli) ==
    LET cb == ComboSec(arac_detay_combobox, secim)
        arac == cb.text
        coz == AracIdCoz(arac)
        arac_id == coz.arac_id
        Red(sonuc) == /\ son' = sonuc
                      /\ arac_detay_combobox' = cb
                      /\ UNCHANGED <<arac_tree, yakit_tree, depo_tree, bakim_tree, rapor_tree,
                                     yakit_arac_combobox, rapor_arac_combobox,
                                     bakim_arac_combobox, depo_durum_label, istVars>>
    IN  IF arac = Bos
        THEN Red(SonKisa("arac_detay_guncelle", "hata", "Lutfen bir arac secin!"))
             /\ UNCHANGED <<tabloVars, disk>>
        ELSE IF ~SplitId1(arac).var
        THEN Red(SonKisa("arac_detay_guncelle", "hata", "Guncelleme sirasinda hata")) /\ Rollback
        ELSE IF ~coz.ok \/ ~tarihler_gecerli
                \/ (g_model_yili.tip # "bos" /\ ~IntOlur(g_model_yili))
        THEN Red(SonKisa("arac_detay_guncelle", "hata", "Gecersiz deger"))
             /\ UNCHANGED <<tabloVars, disk>>
        ELSE /\ araclar' = ModelYiliYaz(araclar, arac_id, g_model_yili)
             /\ UNCHANGED <<arac_seq, yakit_kayitlari, depo_dolumlari, depo, bakim_tamirat>>
             /\ Commit
             /\ arac_detay_combobox' = cb
             /\ arac_tree' = AracListesiSorgu(araclar')
             /\ yakit_arac_combobox' = ComboGuncelle(yakit_arac_combobox, ComboSorgu(araclar'))
             /\ UNCHANGED <<yakit_tree, depo_tree, bakim_tree, rapor_tree, rapor_arac_combobox,
                            bakim_arac_combobox, depo_durum_label, istVars>>
             /\ son' = Son("arac_detay_guncelle", "basari", "Arac bilgileri basariyla guncellendi!",
                           arac_id, Bos, 0, 0, TarihYok, 0)

(***************************************************************************)
(* arac_detay_goster: sel is the selected row of arac_tree (0: none).      *)
(***************************************************************************)
\* plaka in item, for two texts
Icerir(item, plaka) ==
    \E i \in 0..(Len(item) - Len(plaka)) : SubSeq(item, i + 1, i + Len(plaka)) = plaka

\* the first i with plaka in values[i], 0 when the loop ends without one
IlkIceren(values, plaka) ==
    LET yerler == {i \in 1..Len(values) : Icerir(values[i], plaka)}
    IN  IF yerler = {} THEN 0 ELSE CHOOSE i \in yerler : \A j \in yerler : i <= j

AracDetayGoster(sel) ==
    IF sel = 0
    THEN Reddet(SonKisa("arac_detay_goster", "hata",
                        "Lutfen detaylarini gormek icin bir arac secin!"))
    ELSE
    LET gosterilen == arac_tree[sel].plaka
        i == IlkIceren(arac_detay_combobox.values, gosterilen)
    IN  /\ UNCHANGED <<tabloVars, disk, arac_tree, yakit_tree, depo_tree, bakim_tree, rapor_tree,
                       yakit_arac_combobox, rapor_arac_combobox, bakim_arac_combobox,
                       depo_durum_label, istVars>>
        /\ IF IntGibi(gosterilen)
           THEN \* the value comes back as an int: "plaka in item" raises TypeError,
                \* which no clause of the handler catches
                /\ UNCHANGED arac_detay_combobox
                /\ son' = Son("arac_detay_goster", "istisna", "", 0, gosterilen, 0, 0, TarihYok, 0)
           ELSE IF i = 0
           THEN /\ UNCHANGED arac_detay_combobox
                /\ son' = Son("arac_detay_goster", "bulunamadi", "", 0, gosterilen, 0, 0,
                              TarihYok, 0)
           ELSE /\ arac_detay_combobox' = ComboSec(arac_detay_combobox, i)
                /\ son' = Son("arac_detay_goster", "basari", "", 0, gosterilen, 0, 0, TarihYok, 0)

(***************************************************************************)
(* A write handler whose k-th statement (or, after its last statement, its *)
(* commit) raises sqlite3.Error: the statements before it have been        *)
(* executed on the connection, the except Exception clause shows the error *)
(* and rolls back.  The form is valid and the widgets are left as they     *)
(* stand.                                                                  *)
(***************************************************************************)
YazmaArizasi(op, mesaj, bekleyen) ==
    /\ son' = SonKisa(op, "hata", mesaj)
    /\ RollbackSonra(bekleyen)
    /\ UNCHANGED gorunumVars

\* the first k of the statements of lines 1319-1335
YakitEkleAriza(km, miktar, tarih, k) ==
    LET coz == AracIdCoz(yakit_arac_combobox.text)
        y == IF k >= 1
             THEN Append(yakit_kayitlari, [arac_id |-> coz.arac_id, km |-> km,
                                           yakit_miktari |-> miktar, tarih |-> tarih])
             ELSE yakit_kayitlari
        a == IF k >= 2 THEN MevcutKmYaz(araclar, coz.arac_id, km) ELSE araclar
        d == IF k >= 3 THEN DepodanDus(depo, miktar) ELSE depo
    IN  /\ coz.ok
        /\ YazmaArizasi("yakit_ekle", "Yakit eklenirken hata",
                        Tablolar(a, arac_seq, y, depo_dolumlari, d, bakim_tamirat))

\* the first k of the statements of lines 1392-1401
YakitKaydiSilAriza(sel, k) ==
    LET kayit == yakit_tree[sel]
        result == AracIdSorgu(araclar, TkDeger(kayit.plaka))
        y == IF k >= 1
             THEN SelectSeq(yakit_kayitlari,
                      LAMBDA r : ~(/\ r.arac_id = result[1].arac_id
                                   /\ TarihMetin(r.tarih) = TarihMetin(kayit.tarih)
                                   /\ r.km = kayit.km))
             ELSE yakit_kayitlari
        d == IF k >= 2 THEN DepoyaIade(depo, kayit.miktar) ELSE depo
    IN  /\ result # <<>>
        /\ YazmaArizasi("yakit_kaydi_sil", "Yakit kaydi silinirken hata",
                        Tablolar(araclar, arac_seq, y, depo_dolumlari, d, bakim_tamirat))

\* the first k of the statements of lines 1107-1113
AracSilAriza(sel, k) ==
    LET result == AracIdSorgu(araclar, TkDeger(arac_tree[sel].plaka))
        arac_id == result[1].arac_id
        y == IF k >= 1 THEN AracinKayitlariniSil(yakit_kayitlari, arac_id) ELSE yakit_kayitlari
        b == IF k >= 2 THEN AracinKayitlariniSil(bakim_tamirat, arac_id) ELSE bakim_tamirat
        a == IF k >= 3 THEN AracinKayitlariniSil(araclar, arac_id) ELSE araclar
    IN  /\ result # <<>>
        /\ YazmaArizasi("arac_sil", "Arac silinirken hata",
                        Tablolar(a, arac_seq, y, depo_dolumlari, depo, b))

\* the first k of the statements of lines 1442-1451
DepoDoldurAriza(miktar, tarih, k) ==
    LET dd == IF k >= 1 THEN Append(depo_dolumlari, [miktar |-> miktar, tarih |-> tarih])
              ELSE depo_dolumlari
        d == IF k >= 2 THEN DepoEkle(depo, miktar) ELSE depo
    IN  YazmaArizasi("depo_doldur", "Depo doldurulurken hata",
                     Tablolar(araclar, arac_seq, yakit_kayitlari, dd, d, bakim_tamirat))

\* the first k of the statements of lines 1492-1501
DepoDolumSilAriza(sel, k) ==
    LET kayit == depo_tree[sel]
        d == IF k >= 1 THEN DepodanDus(depo, kayit.miktar) ELSE depo
        dd == IF k >= 2 THEN DolumSatiriSil(depo_dolumlari, kayit.tarih, kayit.miktar)
              ELSE depo_dolumlari
    IN  YazmaArizasi("depo_dolum_sil", "Depo kaydi silinirken hata",
                     Tablolar(araclar, arac_seq, yakit_kayitlari, dd, d, bakim_tamirat))

\* arac_ekle: the INSERT of lines 1050-1055 executed (k = 1) or not
AracEkleAriza(plaka, k) ==
    LET a == IF k >= 1
             THEN Append(araclar, [arac_id |-> arac_seq + 1, plaka |-> plaka, model |-> <<"a">>,
                                   mevcut_km |-> 0, model_yili |-> [tip |-> "bos", n |-> 0]])
             ELSE araclar
        q == IF k >= 1 THEN arac_seq + 1 ELSE arac_seq
    IN  /\ ~PlakaKayitli(araclar, plaka)
        /\ YazmaArizasi("arac_ekle", "Arac eklenirken hata",
                        Tablolar(a, q, yakit_kayitlari, depo_dolumlari, depo, bakim_tamirat))

\* bakim_kaydi_ekle: the INSERT of lines 887-896 executed (k = 1) or not
BakimKaydiEkleAriza(tarih, ariza, k) ==
    LET coz == AracIdCoz(bakim_arac_combobox.text)
        b == IF k >= 1
             THEN Append(bakim_tamirat, [arac_id |-> coz.arac_id, tarih |-> tarih,
                                         tespit_edilen_ariza |-> ariza])
             ELSE bakim_tamirat
    IN  /\ coz.ok
        /\ YazmaArizasi("bakim_kaydi_ekle", "Bakim kaydi eklenirken hata",
                        Tablolar(araclar, arac_seq, yakit_kayitlari, depo_dolumlari, depo, b))

\* bakim_kaydi_sil: the DELETE of lines 946-949 executed (k = 1) or not
BakimKaydiSilAriza(sel, k) ==
    LET kayit == bakim_tree[sel]
        coz == AracIdCoz(bakim_arac_combobox.text)
        b == IF k >= 1
             THEN SelectSeq(bakim_tamirat,
                      LAMBDA r : ~(/\ r.arac_id = coz.arac_id
                                   /\ TarihMetin(r.tarih) = TarihMetin(kayit.tarih)
                                   /\ r.tespit_edilen_ariza = TkDeger(kayit.ariza)))
             ELSE bakim_tamirat
    IN  /\ coz.ok
        /\ YazmaArizasi("bakim_kaydi_sil", "Bakim kaydi silinirken hata",
                        Tablolar(araclar, arac_seq, yakit_kayitlari, depo_dolumlari, depo, b))

\* arac_detay_guncelle: the UPDATE of lines 1271-1275 executed (k = 1) or not
AracDetayGuncelleAriza(g_model_yili, k) ==
    LET coz == AracIdCoz(arac_detay_combobox.text)
        a == IF k >= 1 THEN ModelYiliYaz(araclar, coz.arac_id, g_model_yili) ELSE araclar
    IN  /\ coz.ok
        /\ YazmaArizasi("arac_detay_guncelle", "Guncelleme sirasinda hata",
                        Tablolar(a, arac_seq, yakit_kayitlari, depo_dolumlari, depo, bakim_tamirat))

(***************************************************************************)
(* yakit_istatistiklerini_hesapla.  A rate is the fraction <<num, den>>;   *)
(* a label that shows a rate holds it in hundredths, as "{:.2f}" prints it. *)
(***************************************************************************)
RECURSIVE MinKm(_)
MinKm(s) == IF Len(s) = 1 THEN s[1].km
            ELSE LET m == MinKm(Tail(s)) IN IF s[1].km < m THEN s[1].km ELSE m

RECURSIVE MaxKm(_)
MaxKm(s) == IF Len(s) = 1 THEN s[1].km
            ELSE LET m == MaxKm(Tail(s)) IN IF s[1].km > m THEN s[1].km ELSE m

RECURSIVE SumYakit(_)
SumYakit(s) == IF s = <<>> THEN 0 ELSE s[1].yakit_miktari + SumYakit(Tail(s))

\* (yakit / km_fark) * 100
Oran(yakit, km_fark) == <<yakit * 100, km_fark>>

KesirTopla(a, b) == <<a[1] * b[2] + b[1] * a[2], a[2] * b[2]>>

\* f"{x:.2f}" of a rate x >= 0: x in hundredths, rounded to the nearest, ties to even
Fmt2(q) ==
    LET n == q[1] * 100
        taban == n \div q[2]
        kalan == n % q[2]
    IN  IF 2 * kalan > q[2] THEN taban + 1
        ELSE IF 2 * kalan = q[2] /\ taban % 2 = 1 THEN taban + 1
        ELSE taban

OranEtiketi(q) == [tur |-> "oran", deger |-> Fmt2(q)]
VeriYok == [tur |-> "veri_yok", deger |-> 0]
KmHatasi == [tur |-> "km_hatasi", deger |-> 0]

\* the query of lines 1571-1575 without its WHERE arac_id = ?
GenelOrtalamaTumAraclar(yk, arac_id) ==
    LET toplam_km == MaxKm(yk) - MinKm(yk)
    IN  IF yk = <<>> THEN VeriYok
        ELSE IF toplam_km > 0 THEN OranEtiketi(Oran(SumYakit(yk), toplam_km))
        ELSE KmHatasi

\* line 1583 letting a zero span through: the rate shown as zero
GenelOrtalamaSifir(yk, arac_id) ==
    LET satirlar == SelectSeq(yk, LAMBDA r : r.arac_id = arac_id)
        toplam_km == MaxKm(satirlar) - MinKm(satirlar)
    IN  IF satirlar = <<>> THEN VeriYok
        ELSE IF toplam_km > 0 THEN OranEtiketi(Oran(SumYakit(satirlar), toplam_km))
        ELSE OranEtiketi(<<0, 1>>)

\* SELECT MIN(km), MAX(km), SUM(yakit_miktari) FROM yakit_kayitlari WHERE arac_id = ?
\* and the label made of it
GenelOrtalama(yk, arac_id) ==
    LET satirlar == SelectSeq(yk, LAMBDA r : r.arac_id = arac_id)
        toplam_km == MaxKm(satirlar) - MinKm(satirlar)
    IN  IF satirlar = <<>> THEN VeriYok
        ELSE IF toplam_km > 0 THEN OranEtiketi(Oran(SumYakit(satirlar), toplam_km))
        ELSE KmHatasi

\* SELECT strftime(...) AS donem, MIN(km), MAX(km), SUM(yakit_miktari)
\* FROM yakit_kayitlari WHERE arac_id = ? GROUP BY donem
\* HAVING son_km > bas_km AND COUNT(*) > 1: the set of the rows fetched
DonemVerileri(yk, arac_id, bicim) ==
    LET satirlar == SelectSeq(yk, LAMBDA r : r.arac_id = arac_id)
        Donem(t) == IF bicim = "%m-%Y" THEN StrftimeAy(t) ELSE StrftimeYil(t)
        donemler == {Donem(satirlar[i].tarih) : i \in 1..Len(satirlar)}
        Grup(d) == SelectSeq(satirlar, LAMBDA r : Donem(r.tarih) = d)
    IN  {[donem |-> d, bas_km |-> MinKm(Grup(d)), son_km |-> MaxKm(Grup(d)),
          yakit |-> SumYakit(Grup(d))] :
            d \in {e \in donemler : MaxKm(Grup(e)) > MinKm(Grup(e)) /\ Len(Grup(e)) > 1}}

AylikVeriler(yk, arac_id) == DonemVerileri(yk, arac_id, "%m-%Y")

YillikVeriler(yk, arac_id) == DonemVerileri(yk, arac_id, "%Y")

RECURSIVE OranToplami(_)
OranToplami(veriler) ==
    IF veriler = {} THEN <<0, 1>>
    ELSE LET r == CHOOSE x \in veriler : TRUE
         IN  KesirTopla(Oran(r.yakit, r.son_km - r.bas_km), OranToplami(veriler \ {r}))

\* sum(yakit/(son_km-bas_km)*100 for ...) / len(veriler), and the label made of it
DonemOrtalamasi(veriler) ==
    IF veriler # {}
    THEN OranEtiketi(<<OranToplami(veriler)[1], OranToplami(veriler)[2] * Cardinality(veriler)>>)
    ELSE VeriYok

\* The three labels after yakit_istatistiklerini_hesapla, [hata |-> TRUE]
\* when it ends in show_error and leaves them as they are.
YakitIstatistikleriniHesapla(arac, yk, eski) ==
    IF arac = Bos \/ arac = TumAraclar
    THEN [hata |-> FALSE, arac_id |-> 0, ortalama |-> Cizgi, aylik |-> Cizgi, yillik |-> Cizgi]
    ELSE IF ~AracIdCoz(arac).ok
    THEN [hata |-> TRUE, arac_id |-> 0, ortalama |-> eski[1], aylik |-> eski[2], yillik |-> eski[3]]
    ELSE LET arac_id == AracIdCoz(arac).arac_id
         IN  [hata |-> FALSE, arac_id |-> arac_id,
              ortalama |-> GenelOrtalama(yk, arac_id),
              aylik |-> DonemOrtalamasi(AylikVeriler(yk, arac_id)),
              yillik |-> DonemOrtalamasi(YillikVeriler(yk, arac_id))]

(***************************************************************************)
(* filtrele: secim is the entry picked in rapor_arac_combobox, g_ay the    *)
(* text of rapor_ay_combobox ([tum |-> TRUE] for "Tum Aylar" or nothing).  *)
(***************************************************************************)
TumAylar == [tum |-> TRUE, ay |-> 0, yil |-> 0]

\* ... WHERE 1=1 AND y.arac_id = {arac_id} AND strftime('%m-%Y', y.tarih) = '{ay}'
RaporSorgu(yk, ar, tum_araclar, arac_id, g_ay) ==
    YakitKayitlariSorgu(
        SelectSeq(yk, LAMBDA r :
            /\ tum_araclar \/ r.arac_id = arac_id
            /\ g_ay.tum \/ StrftimeAy(r.tarih) = [null |-> FALSE, ay |-> g_ay.ay, yil |-> g_ay.yil]),
        ar)

Filtrele(secim, g_ay) ==
    LET cb == ComboSec(rapor_arac_combobox, secim)
        arac == cb.text
        tum_araclar == arac = Bos \/ arac = TumAraclar
        coz == AracIdCoz(arac)
        ist == YakitIstatistikleriniHesapla(arac, yakit_kayitlari,
                    <<ortalama_tuketim_label, aylik_ortalama_label, yillik_ortalama_label>>)
    IN  /\ rapor_arac_combobox' = cb
        /\ UNCHANGED <<tabloVars, disk, arac_tree, yakit_tree, depo_tree, bakim_tree,
                       yakit_arac_combobox, arac_detay_combobox, bakim_arac_combobox,
                       depo_durum_label>>
        /\ IF ~tum_araclar /\ ~coz.ok
           THEN /\ UNCHANGED <<rapor_tree, istVars>>
                /\ son' = SonKisa("filtrele", "hata", "Gecersiz arac secimi!")
           ELSE /\ rapor_tree' = RaporSorgu(yakit_kayitlari, araclar, tum_araclar, coz.arac_id, g_ay)
                /\ ortalama_tuketim_label' = ist.ortalama
                /\ aylik_ortalama_label' = ist.aylik
                /\ yillik_ortalama_label' = ist.yillik
                /\ son' = Son("filtrele", IF ist.hata THEN "hata" ELSE "basari",
                              IF ist.hata THEN "Istatistik hesaplanirken hata" ELSE "",
                              ist.arac_id, arac, 0, 0, TarihYok, 0)

(***************************************************************************)
(* show_data_analysis: secim is the entry picked in rapor_arac_combobox.   *)
(* The series plotted in the graph window is kept in son.tuketimler, each  *)
(* point a rate <<num, den>>, <<0, 1>> for the point 0.                    *)
(***************************************************************************)
SonGrafik(sonuc, mesaj, arac_id, tuketimler) ==
    [op |-> "show_data_analysis", sonuc |-> sonuc, mesaj |-> mesaj, arac_id |-> arac_id,
     plaka |-> Bos, km |-> 0, miktar |-> 0, tarih |-> TarihYok, depo_once |-> 0,
     onceki |-> IzYok, tuketimler |-> tuketimler]

\* SELECT y.tarih, y.km, y.yakit_miktari FROM yakit_kayitlari y WHERE y.arac_id = ?
\* ORDER BY y.tarih
GrafikSorgu(yk, arac_id) ==
    LET es == SelectSeq(yk, LAMBDA r : r.arac_id = arac_id)
    IN  Degerler(OrderBy([i \in 1..Len(es) |-> [k |-> TarihMetin(es[i].tarih), v |-> es[i]]]))

\* the loop of lines 1678-1685 over rows in the order given
Tuketimler(veriler) ==
    [i \in 1..(Len(veriler) - 1) |->
        IF veriler[i + 1].km - veriler[i].km > 0
        THEN Oran(veriler[i + 1].yakit_miktari, veriler[i + 1].km - veriler[i].km)
        ELSE <<0, 1>>]

ShowDataAnalysis(secim) ==
    LET cb == ComboSec(rapor_arac_combobox, secim)
        arac == cb.text
        coz == AracIdCoz(arac)
        veriler == GrafikSorgu(yakit_kayitlari, coz.arac_id)
    IN  /\ rapor_arac_combobox' = cb
        /\ UNCHANGED <<tabloVars, disk, arac_tree, yakit_tree, depo_tree, bakim_tree, rapor_tree,
                       yakit_arac_combobox, arac_detay_combobox, bakim_arac_combobox,
                       depo_durum_label, istVars>>
        /\ son' = IF arac = Bos \/ arac = TumAraclar
                  THEN SonGrafik("hata", "Lutfen bir arac secin!", 0, <<>>)
                  ELSE IF ~coz.ok
                  THEN \* IndexError or ValueError of line 1656, outside the try block
                       SonGrafik("istisna", "", 0, <<>>)
                  ELSE IF Len(veriler) < 2
                  THEN SonGrafik("hata", "Grafik olusturmak icin yeterli veri yok!",
                                 coz.arac_id, <<>>)
                  ELSE IF \E i \in 1..Len(veriler) : ~StrptimeGecerli(veriler[i].tarih)
                  THEN SonGrafik("hata", "Grafik olusturulurken hata", coz.arac_id, <<>>)
                  ELSE SonGrafik("basari", "", coz.arac_id, Tuketimler(veriler))

(***************************************************************************)
(* What the user enters: each form as a set of filled-in forms, the valid  *)
(* ones and one per way of being rejected.                                 *)
(***************************************************************************)
Metin == [tip |-> "metin", n |-> 0]
BosGirdi == [tip |-> "bos", n |-> 0]

T1 == Tarih("gg-aa-YYYY", 1, 1, 2023)
T3 == Tarih("gg-aa-YYYY", 1, 2, 2023)
T5 == Tarih("g-a-YYYY", 3, 1, 2023)
TIso == Tarih("YYYY-aa-gg", 1, 1, 2023)
TBozuk == Tarih("bozuk", 0, 0, 0)

AracFormu(p, m, k, y) == [plaka |-> p, model |-> m, km |-> k, model_yili |-> y]

AracGirdileri ==
    {AracFormu(<<"A", "1">>, <<"a">>, Sayi(100), BosGirdi),
     AracFormu(<<" ", "a", "1">>, <<"a">>, Sayi(100), BosGirdi),
     AracFormu(<<"0", "7">>, <<"a">>, Sayi(100), BosGirdi),
     AracFormu(<<"7">>, <<"a">>, Sayi(100), BosGirdi),
     AracFormu(<<" ">>, <<"a">>, Sayi(100), BosGirdi),
     AracFormu(<<"A", "1">>, <<"a">>, Sayi(0 - 1), BosGirdi),
     AracFormu(<<"7">>, <<"a">>, Metin, BosGirdi),
     AracFormu(<<"0", "7">>, <<"a">>, Sayi(100), Metin)}

YakitFormu(k, m, t) == [km |-> k, miktar |-> m, tarih |-> t]

YakitGirdileri ==
    {YakitFormu(Sayi(200), Sayi(30), T1),
     YakitFormu(Metin, Sayi(30), T1),
     YakitFormu(Sayi(200), Sayi(0), T1),
     YakitFormu(Sayi(200), Sayi(30), TIso),
     YakitFormu(Sayi(200), Sayi(30), TarihYok)}

DepoGirdileri ==
    {[miktar |-> Sayi(60), tarih |-> T1],
     [miktar |-> Sayi(0), tarih |-> T1],
     [miktar |-> Sayi(60), tarih |-> TBozuk]}

BakimGirdileri ==
    {[tarih |-> T1, saat |-> TRUE, ariza |-> <<"a">>],
     [tarih |-> T1, saat |-> FALSE, ariza |-> <<"a">>]}

DepoSeviyesi == IF DepoSorgu(depo) = <<>> THEN 0 ELSE DepoSorgu(depo)[1].mevcut_yakit

\* The depot level the model lets the handlers move within, in litres.
DepoSiniri == 60

AracEkleAdimi ==
    /\ UNCHANGED baglantiVars
    /\ \E g \in AracGirdileri :
           arac_seq < MaxAracId /\ AracEkle(g.plaka, g.model, g.km, g.model_yili)

AracSilAdimi ==
    /\ UNCHANGED baglantiVars
    /\ \E sel \in 0..Len(arac_tree), onay \in BOOLEAN : AracSil(sel, onay)

YakitEkleAdimi ==
    /\ UNCHANGED baglantiVars
    /\ \E i \in 0..Len(yakit_arac_combobox.values), g \in YakitGirdileri :
           /\ Len(yakit_kayitlari) < MaxYakit
           /\ DepoSeviyesi > 0 - DepoSiniri
           /\ YakitEkle(i, g.km, g.miktar, g.tarih)

YakitKaydiSilAdimi ==
    /\ UNCHANGED baglantiVars
    /\ \E sel \in 0..Len(yakit_tree), onay \in BOOLEAN :
           DepoSeviyesi < DepoSiniri /\ YakitKaydiSil(sel, onay)

DepoDoldurAdimi ==
    /\ UNCHANGED baglantiVars
    /\ \E g \in DepoGirdileri :
           /\ Len(depo_dolumlari) < MaxDolum
           /\ DepoSeviyesi < DepoSiniri
           /\ DepoDoldur(g.miktar, g.tarih)

BakimKaydiEkleAdimi ==
    /\ UNCHANGED baglantiVars
    /\ \E i \in 0..Len(bakim_arac_combobox.values), g \in BakimGirdileri :
           Len(bakim_tamirat) < MaxBakim /\ BakimKaydiEkle(i, g.tarih, g.saat, g.ariza)

Next ==
    \/ AracEkleAdimi
    \/ AracSilAdimi
    \/ YakitEkleAdimi
    \/ YakitKaydiSilAdimi
    \/ DepoDoldurAdimi
    \/ BakimKaydiEkleAdimi

Spec == Init /\ [][Next]_vars

(***************************************************************************)
(* The report tab: vehicles and fuel entries are written, never deleted,   *)
(* and "Filtrele" is pressed in between.                                   *)
(***************************************************************************)
AracGirdileriIst ==
    {AracFormu(<<"A", "1">>, <<"a">>, Sayi(100), BosGirdi),
     AracFormu(<<"7">>, <<"a">>, Sayi(100), BosGirdi)}

YakitGirdileriIst ==
    {YakitFormu(Sayi(100), Sayi(30), T1),
     YakitFormu(Sayi(200), Sayi(32), T1),
     YakitFormu(Sayi(250), Sayi(31), T3),
     YakitFormu(Sayi(100), Sayi(30), T5)}

AyGirdileri == {TumAylar, [tum |-> FALSE, ay |-> 1, yil |-> 2023]}

AracEkleIstAdimi ==
    /\ UNCHANGED baglantiVars
    /\ \E g \in AracGirdileriIst :
           arac_seq < MaxAracId /\ AracEkle(g.plaka, g.model, g.km, g.model_yili)

YakitEkleIstAdimi ==
    /\ UNCHANGED baglantiVars
    /\ \E i \in 0..Len(yakit_arac_combobox.values), g \in YakitGirdileriIst :
           Len(yakit_kayitlari) < MaxYakitIst /\ YakitEkle(i, g.km, g.miktar, g.tarih)

FiltreleAdimi ==
    /\ UNCHANGED baglantiVars
    /\ \E i \in 0..Len(rapor_arac_combobox.values), g \in AyGirdileri : Filtrele(i, g)

NextIst ==
    \/ AracEkleIstAdimi
    \/ YakitEkleIstAdimi
    \/ FiltreleAdimi

SpecIst == Init /\ [][NextIst]_vars

(***************************************************************************)
(* The depot: one vehicle, fuel entries and depot fills written and        *)
(* deleted, volumes above the depot level and the volumes "inf" and "nan", *)
(* the backup and the restart of the program.                              *)
(***************************************************************************)
MaxAracDepo == 1
MaxYakitDepo == 1
MaxDolumDepo == 2
MaxYedek == 1
DepoSiniriDepo == 100

SonsuzGirdi == [tip |-> "ondalik", n |-> Sonsuz]
NaNGirdi == [tip |-> "ondalik", n |-> NaN]

AracGirdileriDepo == {AracFormu(<<"A", "1">>, <<"a">>, Sayi(100), BosGirdi)}

YakitGirdileriDepo ==
    {YakitFormu(Sayi(50), Sayi(70), T1),
     YakitFormu(Sayi(200), SonsuzGirdi, T1),
     YakitFormu(Sayi(200), NaNGirdi, T1),
     YakitFormu(Sayi(200), Sayi(0), T1),
     YakitFormu(Sayi(0 - 1), Sayi(70), T1)}

DepoGirdileriDepo ==
    {[miktar |-> Sayi(60), tarih |-> T1],
     [miktar |-> SonsuzGirdi, tarih |-> T1],
     [miktar |-> NaNGirdi, tarih |-> T1],
     [miktar |-> Sayi(0), tarih |-> T1]}

\* the depot level is within the litres the model lets it move in, or no number
SeviyeSinirda ==
    \/ SonsuzMu(DepoSeviyesi)
    \/ DepoSeviyesi = NaN
    \/ (DepoSeviyesi < DepoSiniriDepo /\ DepoSeviyesi > 0 - DepoSiniriDepo)

\* a handler can run its statements: no backup is under way, self.conn is open
\* and the file holds the tables
Bosta == conn.acik /\ yedek.pc = "bos" /\ disk.var

AracEkleDepoAdimi ==
    /\ Bosta
    /\ UNCHANGED baglantiVars
    /\ \E g \in AracGirdileriDepo :
           arac_seq < MaxAracDepo /\ AracEkle(g.plaka, g.model, g.km, g.model_yili)

YakitEkleDepoAdimi ==
    /\ Bosta
    /\ UNCHANGED baglantiVars
    /\ \E g \in YakitGirdileriDepo :
           /\ Len(yakit_kayitlari) < MaxYakitDepo
           /\ SeviyeSinirda
           /\ YakitEkle(0, g.km, g.miktar, g.tarih)

YakitKaydiSilDepoAdimi ==
    /\ Bosta
    /\ UNCHANGED baglantiVars
    /\ \E sel \in 0..Len(yakit_tree), onay \in BOOLEAN : SeviyeSinirda /\ YakitKaydiSil(sel, onay)

DepoDoldurDepoAdimi ==
    /\ Bosta
    /\ UNCHANGED baglantiVars
    /\ \E g \in DepoGirdileriDepo :
           /\ Len(depo_dolumlari) < MaxDolumDepo
           /\ SeviyeSinirda
           /\ DepoDoldur(g.miktar, g.tarih)

DepoDolumSilAdimi ==
    /\ Bosta
    /\ UNCHANGED baglantiVars
    /\ \E sel \in 0..Len(depo_tree), onay \in BOOLEAN : SeviyeSinirda /\ DepoDolumSil(sel, onay)

YenidenBaslatAdimi == yedek.pc = "bos" /\ YenidenBaslat

AracSilDepoAdimi ==
    /\ Bosta
    /\ UNCHANGED baglantiVars
    /\ \E sel \in 0..Len(arac_tree), onay \in BOOLEAN : AracSil(sel, onay)

YedekBaslaAdimi ==
    \E dosya_var \in BOOLEAN, hedef \in {"", "baska", "kendisi"} :
        conn.no <= MaxYedek /\ YedekBasla(dosya_var, hedef)

YedekKopyalaAdimi == \E sonuc \in {"ok", "izin", "hata"} : YedekKopyala(sonuc)

YedekYenidenBaglanAdimi == \E ilk \in BOOLEAN, ikinci \in BOOLEAN : YedekYenidenBaglan(ilk, ikinci)

KapaliBaglantiAdimi == \E op \in {"yakit_ekle", "depo_doldur"} : KapaliBaglantidaYaz(op)

NextDepo ==
    \/ AracEkleDepoAdimi
    \/ YakitEkleDepoAdimi
    \/ YakitKaydiSilDepoAdimi
    \/ DepoDoldurDepoAdimi
    \/ DepoDolumSilAdimi
    \/ YenidenBaslatAdimi
    \/ AracSilDepoAdimi
    \/ YedekBaslaAdimi
    \/ YedekKopyalaAdimi
    \/ YedekYenidenBaglanAdimi
    \/ KapaliBaglantiAdimi

SpecDepo == Init /\ [][NextDepo]_vars

(***************************************************************************)
(* The nine write handlers on one vehicle, with statements and commits     *)
(* that fail.                                                              *)
(***************************************************************************)
YakitEkleYazmaAdimi ==
    /\ UNCHANGED baglantiVars
    /\ \E g \in YakitGirdileri :
           Len(yakit_kayitlari) < MaxYakitDepo /\ YakitEkle(0, g.km, g.miktar, g.tarih)

BakimKaydiEkleYazmaAdimi ==
    /\ Bosta
    /\ UNCHANGED baglantiVars
    /\ \E g \in BakimGirdileri :
           Len(bakim_tamirat) < MaxBakim /\ BakimKaydiEkle(0, g.tarih, g.saat, g.ariza)

BakimKaydiSilAdimi ==
    /\ Bosta
    /\ UNCHANGED baglantiVars
    /\ \E sel \in 0..Len(bakim_tree), onay \in BOOLEAN : BakimKaydiSil(sel, onay)

AracDetayGirdileri ==
    {[model_yili |-> Sayi(2020), tarihler |-> TRUE],
     [model_yili |-> Metin, tarihler |-> TRUE],
     [model_yili |-> BosGirdi, tarihler |-> FALSE]}

AracDetayGuncelleAdimi ==
    /\ Bosta
    /\ UNCHANGED baglantiVars
    /\ \E g \in AracDetayGirdileri : AracDetayGuncelle(0, g.model_yili, g.tarihler)

\* sqlite3 raises in a handler, at any of its statements or at its commit
YazmaArizasiAdimi ==
    /\ Bosta
    /\ UNCHANGED baglantiVars
    /\ \/ \E k \in 0..3 : YakitEkleAriza(200, 30, T1, k)
       \/ \E sel \in 1..Len(yakit_tree), k \in 0..2 : YakitKaydiSilAriza(sel, k)
       \/ \E sel \in 1..Len(arac_tree), k \in 0..3 : AracSilAriza(sel, k)
       \/ \E k \in 0..2 : DepoDoldurAriza(60, T1, k)
       \/ \E sel \in 1..Len(depo_tree), k \in 0..2 : DepoDolumSilAriza(sel, k)
       \/ \E k \in 0..1 : AracEkleAriza(<<"B", "1">>, k)
       \/ \E k \in 0..1 : BakimKaydiEkleAriza(T1, <<"a">>, k)
       \/ \E sel \in 1..Len(bakim_tree), k \in 0..1 : BakimKaydiSilAriza(sel, k)
       \/ \E k \in 0..1 : AracDetayGuncelleAriza(Sayi(2020), k)

NextYazma ==
    \/ AracEkleDepoAdimi
    \/ AracSilDepoAdimi
    \/ AracDetayGuncelleAdimi
    \/ YakitEkleYazmaAdimi
    \/ YakitKaydiSilDepoAdimi
    \/ DepoDoldurAdimi
    \/ DepoDolumSilAdimi
    \/ BakimKaydiEkleYazmaAdimi
    \/ BakimKaydiSilAdimi
    \/ YazmaArizasiAdimi

SpecYazma == Init /\ [][NextYazma]_vars

(***************************************************************************)
(* The vehicle tab and the vehicle-detail tab: two vehicles, plates one of *)
(* which is part of the other, a plate of digits, the detail update and    *)
(* fuel entries that move the odometer.                                    *)
(***************************************************************************)
MaxAracArac == 2
MaxYakitArac == 1

AracGirdileriArac ==
    {AracFormu(<<"A", "B">>, <<"a">>, Sayi(100), BosGirdi),
     AracFormu(<<" ", "b">>, <<"a">>, Sayi(0), BosGirdi),
     AracFormu(<<"7">>, <<"a">>, Sayi(100), Sayi(0 - 5)),
     AracFormu(<<" ">>, <<"a">>, Sayi(100), BosGirdi),
     AracFormu(<<"A", "B">>, <<"a">>, Sayi(0 - 1), BosGirdi),
     AracFormu(<<"7">>, <<"a">>, Metin, BosGirdi)}

YakitGirdileriArac ==
    {YakitFormu(Sayi(0), Sayi(30), T1),
     YakitFormu(Sayi(200), Sayi(30), T1),
     YakitFormu(Sayi(0 - 1), Sayi(30), T1),
     YakitFormu(Metin, Sayi(30), T1)}

AracEkleAracAdimi ==
    /\ UNCHANGED baglantiVars
    /\ \E g \in AracGirdileriArac :
           arac_seq < MaxAracArac /\ AracEkle(g.plaka, g.model, g.km, g.model_yili)

AracDetayGosterAdimi ==
    /\ UNCHANGED baglantiVars
    /\ \E sel \in 0..Len(arac_tree) : AracDetayGoster(sel)

AracDetayGuncelleAracAdimi ==
    /\ UNCHANGED baglantiVars
    /\ \E i \in 0..Len(arac_detay_combobox.values), g \in AracDetayGirdileri :
           AracDetayGuncelle(i, g.model_yili, g.tarihler)

YakitEkleAracAdimi ==
    /\ UNCHANGED baglantiVars
    /\ \E i \in 0..Len(yakit_arac_combobox.values), g \in YakitGirdileriArac :
           Len(yakit_kayitlari) < MaxYakitArac /\ YakitEkle(i, g.km, g.miktar, g.tarih)

NextArac ==
    \/ AracEkleAracAdimi
    \/ AracSilAdimi
    \/ AracDetayGosterAdimi
    \/ AracDetayGuncelleAracAdimi
    \/ YakitEkleAracAdimi

SpecArac == Init /\ [][NextArac]_vars

(***************************************************************************)
(* The maintenance tab: two vehicles, fault descriptions of letters and of *)
(* digits, records fetched for one vehicle while the box shows the other.  *)
(***************************************************************************)
MaxBakimBakim == 2

BakimGirdileriBakim ==
    {[tarih |-> T1, saat |-> TRUE, ariza |-> <<"a">>],
     [tarih |-> T3, saat |-> TRUE, ariza |-> <<"a">>],
     [tarih |-> T1, saat |-> TRUE, ariza |-> <<"0", "7">>],
     [tarih |-> T1, saat |-> TRUE, ariza |-> <<"7">>],
     [tarih |-> TIso, saat |-> TRUE, ariza |-> <<"a">>]}

BakimKaydiEkleBakimAdimi ==
    /\ UNCHANGED baglantiVars
    /\ \E g \in BakimGirdileriBakim :
           Len(bakim_tamirat) < MaxBakimBakim /\ BakimKaydiEkle(0, g.tarih, g.saat, g.ariza)

BakimKaydiSilBakimAdimi ==
    /\ UNCHANGED baglantiVars
    /\ \E sel \in 0..Len(bakim_tree), onay \in BOOLEAN : BakimKaydiSil(sel, onay)

BakimKaydiDuzenleAdimi ==
    /\ UNCHANGED baglantiVars
    /\ \E sel \in 0..Len(bakim_tree) : BakimKaydiDuzenle(sel)

BakimAracSecAdimi ==
    /\ UNCHANGED baglantiVars
    /\ \E i \in 1..Len(bakim_arac_combobox.values) : BakimAracSec(i)

BakimKayitlariniGetirAdimi == UNCHANGED baglantiVars /\ BakimKayitlariniGetir

NextBakim ==
    \/ AracEkleIstAdimi
    \/ BakimAracSecAdimi
    \/ BakimKayitlariniGetirAdimi
    \/ BakimKaydiEkleBakimAdimi
    \/ BakimKaydiSilBakimAdimi
    \/ BakimKaydiDuzenleAdimi

SpecBakim == Init /\ [][NextBakim]_vars

(***************************************************************************)
(* The graph: fuel entries of two vehicles on days of two months, entered  *)
(* in any order, and "Grafik Olustur" pressed in between.                  *)
(***************************************************************************)
MaxYakitGrafik == 3

T2 == Tarih("gg-aa-YYYY", 2, 1, 2023)

YakitGirdileriGrafik ==
    {YakitFormu(Sayi(100), Sayi(30), T1),
     YakitFormu(Sayi(200), Sayi(31), T2),
     YakitFormu(Sayi(300), Sayi(32), T3),
     YakitFormu(Sayi(300), Sayi(32), TIso)}

YakitEkleGrafikAdimi ==
    /\ UNCHANGED baglantiVars
    /\ \E i \in 0..Len(yakit_arac_combobox.values), g \in YakitGirdileriGrafik :
           Len(yakit_kayitlari) < MaxYakitGrafik /\ YakitEkle(i, g.km, g.miktar, g.tarih)

ShowDataAnalysisAdimi ==
    /\ UNCHANGED baglantiVars
    /\ \E i \in 0..Len(rapor_arac_combobox.values) : ShowDataAnalysis(i)

NextGrafik ==
    \/ AracEkleIstAdimi
    \/ YakitEkleGrafikAdimi
    \/ ShowDataAnalysisAdimi

SpecGrafik == Init /\ [][NextGrafik]_vars

(***************************************************************************)
(* Properties of arac_ekle, arac_sil, yakit_ekle and yakit_kaydi_sil       *)
(***************************************************************************)
Basarili(s, op) == s.op = op /\ s.sonuc = "basari"

\* the deletion just made removed the entry that the handler before it wrote
AyniKayitSilindi ==
    /\ Basarili(son, "yakit_kaydi_sil")
    /\ Basarili(son.onceki, "yakit_ekle")
    /\ son.onceki.arac_id = son.arac_id
    /\ son.onceki.km = son.km
    /\ son.onceki.miktar = son.miktar
    /\ son.onceki.tarih = son.tarih

\* C1: a successful yakit_ekle of volume V from depot level X, followed by the
\* confirmed yakit_kaydi_sil of that same entry, leaves the depot level at X,
\* whichever vehicle it is and whatever entries are stored besides.
C1_DepoGidisDonus == AyniKayitSilindi => DepoSeviyesi = son.onceki.depo_once

C1_Tanik ==
    /\ AyniKayitSilindi
    /\ son.miktar > 0
    /\ son.onceki.depo_once # 0
    /\ DepoSeviyesi = son.onceki.depo_once
    /\ depo_durum_label.deger = son.onceki.depo_once

\* C2: arac_ekle with a plate that, trimmed and upper-cased, is the plate of a
\* stored vehicle ends in an error and changes no table; the rows of araclar
\* are as many as before and the connection holds nothing a later commit
\* would write.
C2_AyniPlakaReddedilir ==
    [][(son'.op = "arac_ekle" /\ \E i \in 1..Len(araclar) : araclar[i].plaka = son'.plaka)
        => /\ son'.sonuc = "hata"
           /\ son'.mesaj # ""
           /\ UNCHANGED <<tabloVars, disk>>
           /\ Len(araclar') = Len(araclar)
           /\ disk' = Tablolar(araclar', arac_seq', yakit_kayitlari', depo_dolumlari', depo',
                               bakim_tamirat')]_vars

C2_Tanik ==
    /\ son.op = "arac_ekle"
    /\ son.sonuc = "hata"
    /\ son.mesaj = "Bu plaka zaten kayitli!"
    /\ \E i \in 1..Len(araclar) : araclar[i].plaka = son.plaka
    /\ disk = Tablolar(araclar, arac_seq, yakit_kayitlari, depo_dolumlari, depo, bakim_tamirat)

\* The vehicle that the row selected in arac_tree shows: son.plaka is the
\* plate in that row, and plates are unique.
SecilenArac(ar, plaka) == ar[CHOOSE i \in 1..Len(ar) : ar[i].plaka = plaka]

\* C3: after a confirmed arac_sil of vehicle v succeeds, storage holds no
\* vehicle row for v, no fuel entry and no maintenance record with v's id, and
\* the rows of every other vehicle are as they were.
C3_AracSilKaskad ==
    [][Basarili(son', "arac_sil")
        => LET v == SecilenArac(araclar, son'.plaka).arac_id
           IN  /\ araclar' = SelectSeq(araclar, LAMBDA r : r.arac_id # v)
               /\ yakit_kayitlari' = SelectSeq(yakit_kayitlari, LAMBDA r : r.arac_id # v)
               /\ bakim_tamirat' = SelectSeq(bakim_tamirat, LAMBDA r : r.arac_id # v)]_vars

\* the combobox entry t names vehicle arac_id
AraciGosterir(t, arac_id) == AracIdCoz(t).ok /\ AracIdCoz(t).arac_id = arac_id

\* C4: after arac_sil has deleted a vehicle, none of the four vehicle
\* comboboxes offers it as a value or holds it as its selection, however many
\* vehicles remain, none included.
C4_SilinenAracListelerdeYok ==
    Basarili(son, "arac_sil")
        => \A cb \in {yakit_arac_combobox, rapor_arac_combobox, arac_detay_combobox,
                      bakim_arac_combobox} :
                /\ ~AraciGosterir(cb.text, son.arac_id)
                /\ \A i \in 1..Len(cb.values) : ~AraciGosterir(cb.values[i], son.arac_id)

(***************************************************************************)
(* Properties of yakit_istatistiklerini_hesapla, read off the state that   *)
(* "Filtrele" leaves.  The entries are taken as a set of row numbers and   *)
(* the figures are worked out again from the definitions in the text.      *)
(***************************************************************************)
\* "Filtrele" has just computed the statistics of vehicle son.arac_id
IstatistikHesaplandi == Basarili(son, "filtrele") /\ son.arac_id # 0

KayitNolari(arac_id) ==
    {i \in 1..Len(yakit_kayitlari) : yakit_kayitlari[i].arac_id = arac_id}

EnBuyukKm(I) ==
    CHOOSE k \in {yakit_kayitlari[i].km : i \in I} : \A j \in I : yakit_kayitlari[j].km <= k

EnKucukKm(I) ==
    CHOOSE k \in {yakit_kayitlari[i].km : i \in I} : \A j \in I : yakit_kayitlari[j].km >= k

RECURSIVE HacimToplami(_)
HacimToplami(I) ==
    IF I = {} THEN 0
    ELSE LET i == CHOOSE x \in I : TRUE
         IN  yakit_kayitlari[i].yakit_miktari + HacimToplami(I \ {i})

Mutlak(x) == IF x < 0 THEN 0 - x ELSE x

\* the label shows the number pay/payda to two decimals
IkiOndalikGosterir(etiket, pay, payda) ==
    etiket.tur = "oran" /\ 2 * Mutlak(etiket.deger * payda - 100 * pay) <= payda

\* C5: for a selected vehicle whose entries have a max odometer above the min
\* odometer, the overall rate reported is (sum of the volumes of that
\* vehicle's entries) / (max odometer - min odometer) * 100, as the label
\* prints it to two decimals; entries of other vehicles do not count.
C5_GenelOran ==
    LET I == KayitNolari(son.arac_id)
    IN  (IstatistikHesaplandi /\ I # {} /\ EnBuyukKm(I) > EnKucukKm(I))
            => IkiOndalikGosterir(ortalama_tuketim_label, 100 * HacimToplami(I),
                                  EnBuyukKm(I) - EnKucukKm(I))

C5_Tanik ==
    LET I == KayitNolari(son.arac_id)
    IN  /\ IstatistikHesaplandi
        /\ Cardinality(I) = 2
        /\ EnBuyukKm(I) > EnKucukKm(I)
        /\ Len(yakit_kayitlari) > Cardinality(I)
        /\ ortalama_tuketim_label.tur = "oran"
        /\ ortalama_tuketim_label.deger % 100 # 0

\* C6: for a selected vehicle with exactly one fuel entry all three figures,
\* overall, monthly and yearly, read "Veri yok".
C6_TekKayitVeriYok ==
    (IstatistikHesaplandi /\ Cardinality(KayitNolari(son.arac_id)) = 1)
        => /\ ortalama_tuketim_label = VeriYok
           /\ aylik_ortalama_label = VeriYok
           /\ yillik_ortalama_label = VeriYok

\* C7: for a selected vehicle with two or more entries that all have the same
\* odometer value, the overall rate reads "KM hatasi", never a number.
C7_SifirAralikKmHatasi ==
    LET I == KayitNolari(son.arac_id)
    IN  (IstatistikHesaplandi /\ Cardinality(I) >= 2 /\ EnBuyukKm(I) = EnKucukKm(I))
            => ortalama_tuketim_label = KmHatasi /\ ortalama_tuketim_label.tur # "oran"

C7_Tanik ==
    LET I == KayitNolari(son.arac_id)
    IN  /\ IstatistikHesaplandi
        /\ Cardinality(I) >= 2
        /\ EnBuyukKm(I) = EnKucukKm(I)
        /\ HacimToplami(I) > 0
        /\ ortalama_tuketim_label = KmHatasi

\* Calendar periods of a stored timestamp
TakvimDonemi(tur, t) == IF tur = "ay" THEN <<t.ay, t.yil>> ELSE <<t.yil>>

DonemKayitlari(I, tur, d) == {i \in I : TakvimDonemi(tur, yakit_kayitlari[i].tarih) = d}

\* the periods holding at least 2 entries whose max odometer exceeds the min
GecerliDonemler(I, tur) ==
    {d \in {TakvimDonemi(tur, yakit_kayitlari[i].tarih) : i \in I} :
        LET J == DonemKayitlari(I, tur, d)
        IN  Cardinality(J) >= 2 /\ EnBuyukKm(J) > EnKucukKm(J)}

\* C8, for one kind of period: the label shows a figure exactly when some
\* period qualifies, and with a single qualifying period the figure is that
\* period's rate, the others standing for nothing.
DonemlereAyrilir(I, tur, etiket) ==
    LET G == GecerliDonemler(I, tur)
    IN  /\ etiket.tur = "oran" <=> G # {}
        /\ Cardinality(G) = 1 =>
              LET J == DonemKayitlari(I, tur, CHOOSE d \in G : TRUE)
              IN  IkiOndalikGosterir(etiket, 100 * HacimToplami(J),
                                     EnBuyukKm(J) - EnKucukKm(J))

\* C8: the selected vehicle's entries, with timestamps as the form stores
\* them (dd-mm-YYYY HH:MM), are split by calendar month, and by calendar
\* year; a part gives a rate exactly when it holds 2 or more entries and its
\* max odometer exceeds its min, every other part is left out.
C8_TakvimDonemleri ==
    LET I == KayitNolari(son.arac_id)
    IN  (IstatistikHesaplandi /\ \A i \in I : yakit_kayitlari[i].tarih.bicim = "gg-aa-YYYY")
            => /\ DonemlereAyrilir(I, "ay", aylik_ortalama_label)
               /\ DonemlereAyrilir(I, "yil", yillik_ortalama_label)

\* the sum of the rates of the periods in G, as <<numerator, denominator>>
RECURSIVE GecerliOranToplami(_, _, _)
GecerliOranToplami(I, tur, G) ==
    IF G = {} THEN <<0, 1>>
    ELSE LET d == CHOOSE x \in G : TRUE
             J == DonemKayitlari(I, tur, d)
             kalan == GecerliOranToplami(I, tur, G \ {d})
             fark == EnBuyukKm(J) - EnKucukKm(J)
         IN  <<100 * HacimToplami(J) * kalan[2] + kalan[1] * fark, fark * kalan[2]>>

AgirliksizOrtalama(I, tur, etiket) ==
    LET G == GecerliDonemler(I, tur)
        toplam == GecerliOranToplami(I, tur, G)
    IN  IF G = {} THEN etiket = VeriYok
        ELSE IkiOndalikGosterir(etiket, toplam[1], toplam[2] * Cardinality(G))

\* C9: the monthly, and the yearly, aggregate is the unweighted mean
\* (r1+...+rn)/n of the rates of the n >= 1 qualifying months (years),
\* however many entries each holds, and "Veri yok" when none qualifies.
C9_AgirliksizOrtalama ==
    LET I == KayitNolari(son.arac_id)
    IN  IstatistikHesaplandi
            => /\ AgirliksizOrtalama(I, "ay", aylik_ortalama_label)
               /\ AgirliksizOrtalama(I, "yil", yillik_ortalama_label)

\* C10: when an entry of the selected vehicle has a timestamp that is not of
\* the form dd-mm-YYYY HH:MM, the statistics end in a reported error and none
\* of the three labels takes a figure of that run.
C10_BozukTarihHata ==
    [][(son'.op = "filtrele" /\ son'.arac_id # 0
        /\ \E i \in KayitNolari(son'.arac_id) : yakit_kayitlari[i].tarih.bicim # "gg-aa-YYYY")
        => son'.sonuc = "hata" /\ UNCHANGED istVars]_vars

C13_SilmeKmDegistirmez ==
    [][son'.op = "yakit_kaydi_sil" => araclar' = araclar]_vars

\* the entry whose reading is the vehicle's current odometer has been deleted
C13_Tanik ==
    /\ Basarili(son, "yakit_kaydi_sil")
    /\ \E i \in 1..Len(araclar) :
           araclar[i].arac_id = son.arac_id /\ araclar[i].mevcut_km = son.km
    /\ \A j \in 1..Len(yakit_kayitlari) :
           yakit_kayitlari[j].arac_id = son.arac_id => yakit_kayitlari[j].km # son.km

\* C16: in every reachable state every stored fuel entry and every stored
\* maintenance record carries the id of a vehicle that is stored.
C16_ReferansButunlugu ==
    /\ \A i \in 1..Len(yakit_kayitlari) : AracVar(araclar, yakit_kayitlari[i].arac_id)
    /\ \A i \in 1..Len(bakim_tamirat) : AracVar(araclar, bakim_tamirat[i].arac_id)

\* C14: a successful depo_doldur of volume V raises the depot level by V and
\* appends one depot-fill row; a confirmed depo_dolum_sil of a row of volume V
\* lowers the level by V and removes one row, the selected one, whatever rows
\* are stored.
C14_DepoDolumVeSilme ==
    [][/\ Basarili(son', "depo_doldur")
           => /\ DepoSeviyesi' = Topla(DepoSeviyesi, son'.miktar)
              /\ depo_dolumlari' =
                     Append(depo_dolumlari, [miktar |-> son'.miktar, tarih |-> son'.tarih])
       /\ Basarili(son', "depo_dolum_sil")
           => /\ DepoSeviyesi' = Topla(DepoSeviyesi, Eksi(son'.miktar))
              /\ \E k \in 1..Len(depo_dolumlari) :
                     /\ depo_dolumlari[k] = [miktar |-> son'.miktar, tarih |-> son'.tarih]
                     /\ depo_dolumlari' =
                            [i \in 1..(Len(depo_dolumlari) - 1) |->
                                IF i < k THEN depo_dolumlari[i] ELSE depo_dolumlari[i + 1]]
      ]_vars

\* C17: in every reachable state the table depo holds exactly one row, the row
\* with depo_id 1, in the connection's view and in the database file.
C17_TekDepoSatiri ==
    /\ Len(depo) = 1
    /\ depo[1].depo_id = 1
    /\ Len(disk.depo) = 1
    /\ disk.depo[1].depo_id = 1

\* C18: starting the program on the database file it left (create_tables and
\* initialize_database on existing tables and an existing depot row) changes
\* no row of any table: the depot level is what it was and there is no second
\* depot row.
C18_BaslangicEtkisiz ==
    [][(son'.op = "baslat" /\ disk.var)
        => /\ araclar' = araclar
           /\ arac_seq' = arac_seq
           /\ yakit_kayitlari' = yakit_kayitlari
           /\ depo_dolumlari' = depo_dolumlari
           /\ depo' = depo
           /\ bakim_tamirat' = bakim_tamirat
           /\ disk' = disk]_vars

\* the program has been started again with a vehicle stored and a depot level
\* that is not 0, and shows that level
C18_Tanik ==
    /\ son.op = "baslat"
    /\ araclar # <<>>
    /\ DepoSeviyesi = 60
    /\ depo_durum_label = [tur |-> "litre", deger |-> 60]
    /\ conn = [no |-> 1, acik |-> TRUE]

\* C15: backup_database closes the connection, then copies the file, then
\* connects again: the file is read only while self.conn is closed; when the
\* handler returns after a copy attempt, self.conn is a connection opened after
\* the copy, or connecting failed and the message about it is shown; cancelling
\* the save dialog leaves self.conn as it was.
C15_YedekSirasi ==
    [][/\ yedek'.okundu # "acikken"
       /\ yedek'.pc \in {"kapali", "kopyalandi"} => ~conn'.acik
       /\ yedek'.pc = "kopyalandi" => yedek.pc = "kapali"
       /\ (yedek.pc = "kopyalandi" /\ yedek'.pc = "bos")
           => \/ conn'.acik /\ conn'.no = conn.no + 1
              \/ ~conn'.acik /\ son'.mesaj = "Veritabanina yeniden baglanilamadi!"
       /\ (son'.op = "backup_database" /\ son'.sonuc = "iptal") => conn' = conn
      ]_vars

\* a backup has been written and the handler has returned with a new connection
C15_Tanik ==
    /\ son.op = "backup_database"
    /\ son.sonuc = "bitti"
    /\ son.mesaj = "Veritabani yedegi basariyla alindi"
    /\ yedek = [pc |-> "bos", hedef |-> "", okundu |-> "kapaliyken"]
    /\ conn = [no |-> 2, acik |-> TRUE]

\* a form yakit_ekle has no reason to reject: readings and volume are numbers,
\* the reading is not negative, the volume is positive, the timestamp is valid
GecerliYakitFormu(g) ==
    /\ g.km.tip = "sayi"
    /\ g.km.n >= 0
    /\ g.miktar.tip \in {"sayi", "ondalik"}
    /\ g.miktar.n > 0
    /\ g.miktar.n # NaN
    /\ g.tarih.bicim \in {"gg-aa-YYYY", "g-a-YYYY"}

\* C19: yakit_ekle with a vehicle selected and a valid form succeeds at every
\* depot level, with the success message and no other; the level becomes the
\* previous level minus V, below zero when V is above the level; depo_dolum_sil
\* lowers the level the same way, nothing holds it at zero.
C19_DepoEksiyeDuser ==
    [][/\ \A g \in YakitGirdileriDepo :
              (/\ GecerliYakitFormu(g)
               /\ AracIdCoz(yakit_arac_combobox.text).ok
               /\ YakitEkle(0, g.km, g.miktar, g.tarih))
              => /\ Basarili(son', "yakit_ekle")
                 /\ son'.mesaj = "Yakit kaydi basariyla eklendi!"
                 /\ DepoSeviyesi' = Topla(DepoSeviyesi, Eksi(g.miktar.n))
                 /\ (DepoSeviyesi # NaN /\ g.miktar.n > DepoSeviyesi) => DepoSeviyesi' < 0
       /\ Basarili(son', "depo_dolum_sil")
              => DepoSeviyesi' = Topla(DepoSeviyesi, Eksi(son'.miktar))
      ]_vars

\* 70 litres have been drawn from a depot of 60: the level is -10 and is shown
C19_Tanik ==
    /\ Basarili(son, "yakit_ekle")
    /\ son.miktar = 70
    /\ son.depo_once = 60
    /\ DepoSeviyesi = 0 - 10
    /\ depo_durum_label = [tur |-> "litre", deger |-> 0 - 10]
    /\ disk.depo = depo

\* C20: every stored fuel entry has a volume above 0 and a reading of at least
\* 0, every stored depot fill a volume above 0; yakit_ekle with volume <= 0 or
\* reading < 0 and depo_doldur with volume <= 0 end in an error and leave all
\* tables and the database file as they were; a successful yakit_ekle stores
\* the reading as entered, whatever the earlier readings of the vehicle are.
C20_HacimVeKmSinirlari ==
    [][/\ \A i \in 1..Len(yakit_kayitlari') :
              /\ yakit_kayitlari'[i].yakit_miktari > 0
              /\ yakit_kayitlari'[i].yakit_miktari # NaN
              /\ yakit_kayitlari'[i].km >= 0
       /\ \A i \in 1..Len(depo_dolumlari') :
              depo_dolumlari'[i].miktar > 0 /\ depo_dolumlari'[i].miktar # NaN
       /\ \A g \in YakitGirdileriDepo :
              ((g.miktar.n <= 0 \/ g.km.n < 0) /\ YakitEkle(0, g.km, g.miktar, g.tarih))
              => son'.sonuc = "hata" /\ UNCHANGED <<tabloVars, disk>>
       /\ \A g \in DepoGirdileriDepo :
              (g.miktar.n <= 0 /\ DepoDoldur(g.miktar, g.tarih))
              => son'.sonuc = "hata" /\ UNCHANGED <<tabloVars, disk>>
       /\ \A g \in YakitGirdileriDepo :
              (YakitEkle(0, g.km, g.miktar, g.tarih) /\ Basarili(son', "yakit_ekle"))
              => yakit_kayitlari'[Len(yakit_kayitlari')].km = g.km.n
      ]_vars

\* a reading of 50 has been stored for the vehicle, which was entered with the
\* reading 100, and a fill is stored
C20_Tanik ==
    /\ Basarili(son, "yakit_ekle")
    /\ Len(yakit_kayitlari) = 1
    /\ yakit_kayitlari[1].km = 50
    /\ yakit_kayitlari[1].yakit_miktari = 70
    /\ \E i \in 1..Len(araclar) :
           araclar[i].arac_id = yakit_kayitlari[1].arac_id /\ araclar[i].mevcut_km = 50
    /\ depo_dolumlari # <<>>

YazmaIslemleri ==
    {"arac_ekle", "arac_sil", "arac_detay_guncelle", "yakit_ekle", "yakit_kaydi_sil",
     "depo_doldur", "depo_dolum_sil", "bakim_kaydi_ekle", "bakim_kaydi_sil"}

\* the connection holds no statement that is not committed
BekleyenYok ==
    /\ araclar = disk.araclar
    /\ arac_seq = disk.arac_seq
    /\ yakit_kayitlari = disk.yakit_kayitlari
    /\ depo_dolumlari = disk.depo_dolumlari
    /\ depo = disk.depo
    /\ bakim_tamirat = disk.bakim_tamirat

\* C12: a write handler that ends in an error leaves the database file as it
\* was and shows a message, and leaves no statement pending on the connection
\* that a later commit would make durable; no handler at all leaves one.
C12_YaHepYaHic ==
    [][/\ (son'.op \in YazmaIslemleri /\ son'.sonuc = "hata")
           => /\ disk' = disk
              /\ son'.mesaj # ""
              /\ BekleyenYok'
       /\ son'.op \in YazmaIslemleri => BekleyenYok'
      ]_vars

\* yakit_ekle has failed at a statement or at its commit, with a vehicle, a
\* fill and a maintenance record stored: nothing of it is kept
C12_Tanik ==
    /\ son.op = "yakit_ekle"
    /\ son.sonuc = "hata"
    /\ son.mesaj = "Yakit eklenirken hata"
    /\ araclar # <<>>
    /\ yakit_kayitlari = <<>>
    /\ depo_dolumlari # <<>>
    /\ bakim_tamirat # <<>>
    /\ BekleyenYok
    /\ DepoSeviyesi = 60

(***************************************************************************)
(* Properties of the vehicle table                                         *)
(***************************************************************************)
KucukHarfYok(s) == \A i \in 1..Len(s) : Kod(s[i]) \notin 97..122

\* C21: no two stored vehicles have the same plate, every stored plate is
\* non-empty and has no lower-case letter, and every stored odometer is >= 0.
C21_PlakaVeKmDegismezi ==
    /\ \A i, j \in 1..Len(araclar) : araclar[i].plaka = araclar[j].plaka => i = j
    /\ \A i \in 1..Len(araclar) :
           /\ araclar[i].plaka # Bos
           /\ KucukHarfYok(araclar[i].plaka)
           /\ araclar[i].mevcut_km >= 0

\* two vehicles are stored, one of them entered as " b" and stored as "B",
\* and a fuel entry has set the odometer of the other to 0
C21_Tanik ==
    /\ Len(araclar) = 2
    /\ \E i \in 1..2 : araclar[i].plaka = <<"B">>
    /\ \E i \in 1..2 : araclar[i].plaka = <<"A", "B">> /\ araclar[i].mevcut_km = 0
    /\ Basarili(son, "yakit_ekle")
    /\ son.km = 0

\* C22: arac_detay_guncelle leaves the plate, the model and the odometer of
\* every vehicle, every column of the vehicles it was not pressed for and all
\* fuel, depot and maintenance rows as they are; and no step changes the
\* odometer of a vehicle but a successful yakit_ekle for that vehicle.
C22_GuncellemeCercevesi ==
    [][/\ son'.op = "arac_detay_guncelle"
           => /\ Len(araclar') = Len(araclar)
              /\ \A i \in 1..Len(araclar) :
                     /\ araclar'[i].arac_id = araclar[i].arac_id
                     /\ araclar'[i].plaka = araclar[i].plaka
                     /\ araclar'[i].model = araclar[i].model
                     /\ araclar'[i].mevcut_km = araclar[i].mevcut_km
                     /\ araclar'[i] # araclar[i]
                            => /\ Basarili(son', "arac_detay_guncelle")
                               /\ araclar[i].arac_id = son'.arac_id
              /\ arac_seq' = arac_seq
              /\ yakit_kayitlari' = yakit_kayitlari
              /\ depo_dolumlari' = depo_dolumlari
              /\ depo' = depo
              /\ bakim_tamirat' = bakim_tamirat
       /\ \A i \in 1..Len(araclar), j \in 1..Len(araclar') :
              (araclar[i].arac_id = araclar'[j].arac_id
                   /\ araclar[i].mevcut_km # araclar'[j].mevcut_km)
              => /\ Basarili(son', "yakit_ekle")
                 /\ son'.arac_id = araclar[i].arac_id
      ]_vars

\* the model year of the second of two vehicles has been updated, with a fuel
\* entry stored; the first vehicle has no model year
C22_Tanik ==
    /\ Basarili(son, "arac_detay_guncelle")
    /\ Len(araclar) = 2
    /\ yakit_kayitlari # <<>>
    /\ \E i, j \in 1..2 :
           /\ araclar[i].arac_id = son.arac_id
           /\ araclar[i].model_yili = Sayi(2020)
           /\ araclar[i].arac_id = 2
           /\ araclar[j].model_yili = BosGirdi

\* C29: after arac_detay_goster ran on a selected row, arac_detay_combobox
\* shows the vehicle of that row, the one a following arac_detay_guncelle
\* updates.
C29_DetaySecimi ==
    (son.op = "arac_detay_goster" /\ son.sonuc # "hata")
    => \E i \in 1..Len(araclar) :
           /\ araclar[i].plaka = son.plaka
           /\ AracIdCoz(arac_detay_combobox.text) = [ok |-> TRUE, arac_id |-> araclar[i].arac_id]

YazmaFormlari ==
    {"arac_ekle", "arac_detay_guncelle", "yakit_ekle", "depo_doldur", "bakim_kaydi_ekle"}

\* C24: a write form that ends in an error leaves the tables and the file as
\* they were, and a form with a negative model year is rejected, so that no
\* stored vehicle has one.
C24_FormlarReddeder ==
    [][/\ (son'.op \in YazmaFormlari /\ son'.sonuc = "hata")
           => /\ son'.mesaj # ""
              /\ UNCHANGED <<tabloVars, disk>>
       /\ \A i \in 1..Len(araclar') :
              araclar'[i].model_yili.tip = "sayi" => araclar'[i].model_yili.n >= 0
      ]_vars

(***************************************************************************)
(* Properties of the maintenance records                                   *)
(***************************************************************************)
\* the maintenance records of bt that are no longer in sonra
Silinenler(bt, sonra) ==
    {bt[k] : k \in {n \in 1..Len(bt) : \A j \in 1..Len(sonra) : sonra[j] # bt[n]}}

\* C23: a confirmed bakim_kaydi_sil that reports success has removed exactly
\* the records of the vehicle of bakim_arac_combobox whose date and fault
\* description are those of the selected row (son.plaka holds the fault
\* description the row shows).
C23_BakimUcluAnahtar ==
    [][Basarili(son', "bakim_kaydi_sil")
           => bakim_tamirat' =
                  SelectSeq(bakim_tamirat,
                      LAMBDA r : ~(/\ r.arac_id = son'.arac_id
                                   /\ TarihMetin(r.tarih) = TarihMetin(son'.tarih)
                                   /\ r.tespit_edilen_ariza = son'.plaka))
      ]_vars

\* C27: every record that bakim_kaydi_sil or bakim_kaydi_duzenle removes
\* belongs to the vehicle the rows of the maintenance list were fetched for.
C27_ListeninAraci ==
    [][(son'.op \in {"bakim_kaydi_sil", "bakim_kaydi_duzenle"} /\ bakim_tree # <<>>)
           => \A r \in Silinenler(bakim_tamirat, bakim_tamirat') :
                  r.arac_id = bakim_tree[1].arac_id
      ]_vars

\* C28: bakim_kaydi_duzenle removes no maintenance record.
C28_DuzenlemeVeriKaybetmez ==
    [][son'.op = "bakim_kaydi_duzenle" => bakim_tamirat' = bakim_tamirat]_vars

(***************************************************************************)
(* Properties of the depot level and the fuel entries                      *)
(***************************************************************************)
RECURSIVE DolumToplami(_)
DolumToplami(dd) == IF dd = <<>> THEN 0 ELSE Topla(dd[1].miktar, DolumToplami(Tail(dd)))

RECURSIVE YakitToplami(_)
YakitToplami(yk) == IF yk = <<>> THEN 0 ELSE Topla(yk[1].yakit_miktari, YakitToplami(Tail(yk)))

SonluMu(x) == ~SonsuzMu(x) /\ x # NaN

\* C25: the depot level is the sum of the volumes of the stored depot fills
\* minus the sum of the volumes of the stored fuel entries (stated for the
\* states whose level and volumes are finite numbers).
C25_DepoKorunumu ==
    (/\ disk.var
     /\ SonluMu(DepoSeviyesi)
     /\ SonluMu(DolumToplami(depo_dolumlari))
     /\ SonluMu(YakitToplami(yakit_kayitlari)))
    => DepoSeviyesi = DolumToplami(depo_dolumlari) - YakitToplami(yakit_kayitlari)

\* C26: a yakit_kaydi_sil that raises the depot level by the volume of the
\* selected row removes exactly one fuel entry.
C26_TekKayitSilinir ==
    [][Basarili(son', "yakit_kaydi_sil")
           => Len(yakit_kayitlari') = Len(yakit_kayitlari) - 1
      ]_vars

(***************************************************************************)
(* Properties of the graph                                                 *)
(***************************************************************************)
\* the day of a timestamp, counted so that a later day has the larger number
GunSayisi(t) == t.yil * 10000 + t.ay * 100 + t.gun

RECURSIVE ZamanaGoreEkle(_, _)
ZamanaGoreEkle(x, s) ==
    IF s = <<>> THEN <<x>>
    ELSE IF GunSayisi(x.tarih) < GunSayisi(Head(s).tarih) THEN <<x>> \o s
    ELSE <<Head(s)>> \o ZamanaGoreEkle(x, Tail(s))

\* the rows of s in the order of their timestamps in time
RECURSIVE ZamanSirasi(_)
ZamanSirasi(s) ==
    IF s = <<>> THEN <<>> ELSE ZamanaGoreEkle(s[Len(s)], ZamanSirasi(SubSeq(s, 1, Len(s) - 1)))

\* C30: the series show_data_analysis plots is computed over the vehicle's
\* fuel entries in the order of their timestamps in time: point i is
\* volume[i] / (odometer[i] - odometer[i-1]) * 100 for the entry i-1 that
\* precedes entry i in time, and 0 when the difference is not positive.
C30_ZamanSirasiylaTuketim ==
    Basarili(son, "show_data_analysis")
    => son.tuketimler =
           Tuketimler(ZamanSirasi(SelectSeq(yakit_kayitlari,
                                            LAMBDA r : r.arac_id = son.arac_id)))

====
